---- MODULE Spec2Model ----
(***************************************************************************)
(* A model of the graph formatter's layout core                            *)
(* (Source/GraphFormatter/Private/FormatterGraph.cpp and                   *)
(* FastAndSimplePositioningStrategy.cpp).                                  *)
(*                                                                         *)
(* Objects live in a heap.  FFormatterNode and FFormatterPin objects have  *)
(* addresses (naturals); a node record holds the addresses of its pins and *)
(* its two edge lists; an FFormatterEdge is the pair of pin addresses      *)
(* (From, To) it stores.  `new` takes the next free address and            *)
(* FGuid::NewGuid() the next free number of the same counter.  A           *)
(* FFormatterGraph is a record of its Nodes array, its three maps and its  *)
(* LayeredList.  Every C++ function is an operator from (heap, graph) to   *)
(* (heap, graph); loops are recursive operators.                           *)
(***************************************************************************)
EXTENDS Integers, Sequences, FiniteSets, TLC

\* Bounds of the input graphs of the pipeline specification.
MaxNodes == 3
MaxLinks == 4

\* UFormatterSettings::MaxOrderingIterations, a setting of the host
MaxOrderingIterations == 2

\* the number of mutations applied to a cloned graph
MaxMutations == 2

\* the isolated graphs of a graph, the nodes of one, and the range of their
\* coordinates, of their sizes and of the setting VerticalSpacing
MaxComponents == 3

MaxRects == 2

MaxCoord == 1

MaxSize == 2

MaxSpacing == 1

\* the pins of a host node are up to MaxPinRow apart
MaxPinRow == 1

VARIABLES
    heap,       \* [nodes: address -> FFormatterNode, pins: address -> FFormatterPin, next: counter]
    graph,      \* the FFormatterGraph being formatted (this)
    pc,         \* the position in FFormatterGraph::Format
    before,     \* the (heap, graph) at the start of the last step (history)
    aux         \* results of the last step that the program holds in locals

vars == <<heap, graph, pc, before, aux>>

----------------------------------------------------------------------------
(* Generic helpers                                                         *)

EmptyMap == [x \in {} |-> 0]

MapPut(f, k, v) == [x \in (DOMAIN f) \cup {k} |-> IF x = k THEN v ELSE f[x]]

MapRemove(f, k) == [x \in (DOMAIN f) \ {k} |-> f[x]]

Range(s) == {s[i] : i \in DOMAIN s}

\* TArray::Contains
Contains(s, x) == \E i \in DOMAIN s : s[i] = x

\* TArray::Find / IndexOfByPredicate, 1-based; 0 stands for INDEX_NONE
IndexOf(s, x) == IF Contains(s, x) THEN CHOOSE i \in DOMAIN s : s[i] = x /\ \A j \in 1..(i - 1) : s[j] # x ELSE 0

\* TArray::RemoveAt
RemoveAt(s, i) == [j \in 1..(Len(s) - 1) |-> IF j < i THEN s[j] ELSE s[j + 1]]

\* TArray::Remove(item): removes every occurrence
RemoveItem(s, x) == SelectSeq(s, LAMBDA y : y # x)

RECURSIVE SumSeq(_)
SumSeq(s) == IF s = <<>> THEN 0 ELSE Head(s) + SumSeq(Tail(s))

RECURSIVE SetToSeq(_)
\* the elements of a finite set of integers in increasing order
SetToSeq(S) == IF S = {} THEN <<>> ELSE LET m == CHOOSE x \in S : \A y \in S : x <= y IN <<m>> \o SetToSeq(S \ {m})

RECURSIVE SubsetsUpTo(_, _)
\* the subsets of S with at most k elements
SubsetsUpTo(S, k) == IF k = 0 THEN {{}} ELSE LET R == SubsetsUpTo(S, k - 1) IN R \cup {T \cup {x} : T \in R, x \in S}

NULL == 0

\* TSet::Add / Append on a set kept as the sequence of its elements in
\* insertion order
RECURSIVE AppendNew(_, _)
AppendNew(s, t) ==
    IF t = <<>> THEN s
    ELSE AppendNew(IF Contains(s, Head(t)) THEN s ELSE Append(s, Head(t)), Tail(t))

RECURSIVE Flatten(_)
Flatten(ss) == IF ss = <<>> THEN <<>> ELSE Head(ss) \o Flatten(Tail(ss))

----------------------------------------------------------------------------------------------------------------------------------------
(* The host graph (UEdGraph) is a record H: Pins[u] is the pin array of    *)
(* host node u, Direction[p] the direction of host pin p, and Links the    *)
(* set of links <<output pin, input pin>>.  Host nodes and host pins are   *)
(* positive numbers; the node array of the graph is 1, 2, ...  Comments is *)
(* the set of the comment nodes, Under[c] the nodes under comment c,       *)
(* CommentOrder the comment nodes in the order a sort by CommentDepth      *)
(* leaves them in, NodePosY[u] the NodePosY of host node u.                *)

\* UEdGraphPin::LinkedTo
LinkedTo(H, p) ==
    SetToSeq({l[2] : l \in {k \in H.Links : k[1] = p}} \cup {l[1] : l \in {k \in H.Links : k[2] = p}})

\* UEdGraphPin::GetOwningNodeUnchecked
OwningUENode(H, p) == CHOOSE u \in DOMAIN H.Pins : Contains(H.Pins[u], p)

----------------------------------------------------------------------------
(* FFormatterNode                                                          *)

\* new FFormatterPin with the fields the constructors set
NewPin(Guid, OriginalPin, Direction, OwningNode) ==
    [Guid |-> Guid, OriginalPin |-> OriginalPin, Direction |-> Direction, OwningNode |-> OwningNode]

\* FFormatterNode::FFormatterNode(UEdGraphNode*): the node takes the host
\* node's guid u; each host pin gets a new pin with a new guid.  The node is
\* at address W.next, the pin of host pin i at W.next + 2i - 1 with guid
\* W.next + 2i.
NodeFromUENode(W, H, u) ==
    LET a == W.next
        ps == H.Pins[u]
        idx == [i \in DOMAIN ps |-> i]
        ins == SelectSeq(idx, LAMBDA i : H.Direction[ps[i]] = "Input")
        outs == SelectSeq(idx, LAMBDA i : H.Direction[ps[i]] = "Output")
        newPins == [x \in {a + 2 * i - 1 : i \in DOMAIN ps} |->
                       NewPin(x + 1, ps[(x - a + 1) \div 2], H.Direction[ps[(x - a + 1) \div 2]], a)]
        node == [Guid |-> u, OriginalNode |-> u,
                 InPins |-> [k \in DOMAIN ins |-> a + 2 * ins[k] - 1],
                 OutPins |-> [k \in DOMAIN outs |-> a + 2 * outs[k] - 1],
                 InEdges |-> <<>>, OutEdges |-> <<>>, PathDepth |-> 0, SubGraph |-> <<>>]
    IN [nodes |-> MapPut(W.nodes, a, node),
        pins |-> [x \in (DOMAIN W.pins) \cup (DOMAIN newPins) |-> IF x \in DOMAIN newPins THEN newPins[x] ELSE W.pins[x]],
        next |-> a + 2 * Len(ps) + 1]

RECURSIVE CloneGraph(_, _)
\* FFormatterNode::FFormatterNode(const FFormatterNode&): a new node with the
\* same guid and path depth, a copy of the subgraph of Other if it has one,
\* and a new pin for every pin of Other with the same guid, original pin and
\* direction, owned by the new node.  The edge lists start empty.  The node
\* is at address W.next and its pin i at W.next + i; the objects of the
\* subgraph come after them.
CopyNode(W, Other) ==
    LET a == W.next
        o == W.nodes[Other]
        nIn == Len(o.InPins)
        nOut == Len(o.OutPins)
        src(i) == IF i <= nIn THEN o.InPins[i] ELSE o.OutPins[i - nIn]
        newPins == [x \in (a + 1)..(a + nIn + nOut) |->
                       NewPin(W.pins[src(x - a)].Guid, W.pins[src(x - a)].OriginalPin, W.pins[src(x - a)].Direction, a)]
        W1 == [W EXCEPT !.next = a + nIn + nOut + 1]
        Sub == IF o.SubGraph # <<>> THEN CloneGraph(W1, o.SubGraph[1]) ELSE [W |-> W1, G |-> <<>>]
        node == [Guid |-> o.Guid, OriginalNode |-> o.OriginalNode,
                 InPins |-> [i \in 1..nIn |-> a + i], OutPins |-> [i \in 1..nOut |-> a + nIn + i],
                 InEdges |-> <<>>, OutEdges |-> <<>>, PathDepth |-> o.PathDepth,
                 SubGraph |-> IF o.SubGraph # <<>> THEN <<Sub.G>> ELSE <<>>]
    IN [nodes |-> MapPut(Sub.W.nodes, a, node),
        pins |-> [x \in (DOMAIN Sub.W.pins) \cup (DOMAIN newPins) |-> IF x \in DOMAIN newPins THEN newPins[x] ELSE Sub.W.pins[x]],
        next |-> Sub.W.next]

\* FFormatterNode::FFormatterNode(): a dummy node with new guids, no original
\* node, one input pin and one output pin.
DummyNode(W) ==
    LET a == W.next
        node == [Guid |-> a + 1, OriginalNode |-> NULL, InPins |-> <<a + 2>>, OutPins |-> <<a + 4>>,
                 InEdges |-> <<>>, OutEdges |-> <<>>, PathDepth |-> 0, SubGraph |-> <<>>]
    IN [nodes |-> MapPut(W.nodes, a, node),
        pins |-> MapPut(MapPut(W.pins, a + 2, NewPin(a + 3, NULL, "Input", a)), a + 4, NewPin(a + 5, NULL, "Output", a)),
        next |-> a + 6]

\* FFormatterNode::Connect
Connect(W, Node, SourcePin, TargetPin) ==
    LET Edge == [From |-> SourcePin, To |-> TargetPin]
    IN IF W.pins[SourcePin].Direction = "Output"
       THEN [W EXCEPT !.nodes[Node].OutEdges = Append(@, Edge)]
       ELSE [W EXCEPT !.nodes[Node].InEdges = Append(@, Edge)]

\* FFormatterNode::Disconnect: removes the first edge (SourcePin, TargetPin)
\* of the list the direction of SourcePin selects, if there is one.
Disconnect(W, Node, SourcePin, TargetPin) ==
    LET Edge == [From |-> SourcePin, To |-> TargetPin]
    IN IF W.pins[SourcePin].Direction = "Output"
       THEN LET Index == IndexOf(W.nodes[Node].OutEdges, Edge)
            IN IF Index # 0 THEN [W EXCEPT !.nodes[Node].OutEdges = RemoveAt(@, Index)] ELSE W
       ELSE LET Index == IndexOf(W.nodes[Node].InEdges, Edge)
            IN IF Index # 0 THEN [W EXCEPT !.nodes[Node].InEdges = RemoveAt(@, Index)] ELSE W

\* FFormatterNode::GetSuccessors
GetSuccessors(W, Node) ==
    [i \in DOMAIN W.nodes[Node].OutEdges |-> W.pins[W.nodes[Node].OutEdges[i].To].OwningNode]

\* FFormatterNode::GetPredecessors
GetPredecessors(W, Node) ==
    [i \in DOMAIN W.nodes[Node].InEdges |-> W.pins[W.nodes[Node].InEdges[i].To].OwningNode]

\* FFormatterNode::IsSource
IsSource(W, Node) == Len(W.nodes[Node].InEdges) = 0

\* FFormatterNode::IsSink
IsSink(W, Node) == Len(W.nodes[Node].OutEdges) = 0

\* FFormatterNode::AnySuccessorPathDepthEqu0
AnySuccessorPathDepthEqu0(W, Node) ==
    \E i \in DOMAIN W.nodes[Node].OutEdges :
        W.nodes[W.pins[W.nodes[Node].OutEdges[i].To].OwningNode].PathDepth = 0

RECURSIVE DeleteGraph(_, _)
\* FFormatterNode::~FFormatterNode: the node, its pins and its subgraph
\* leave the heap
DeleteNode(W, Node) ==
    LET gone == Range(W.nodes[Node].InPins) \cup Range(W.nodes[Node].OutPins)
        W1 == IF W.nodes[Node].SubGraph # <<>> THEN DeleteGraph(W, W.nodes[Node].SubGraph[1]) ELSE W
    IN [W1 EXCEPT !.nodes = MapRemove(@, Node), !.pins = [x \in (DOMAIN @) \ gone |-> @[x]]]

----------------------------------------------------------------------------
(* FFormatterGraph: construction, removal, clone                           *)
(* A state S of the program is [W |-> heap, G |-> graph].  A graph owns    *)
(* its subgraphs and its isolated graphs: each is held as a graph record,  *)
(* the subgraph of a node in the field SubGraph of the node, which is <<>> *)
(* for nullptr and <<the graph>> otherwise (SubGraphs has the guid of a    *)
(* node exactly when the node has a subgraph).                             *)

EmptyGraph ==
    [Nodes |-> <<>>, NodesMap |-> EmptyMap, PinsMap |-> EmptyMap, OriginalPinsMap |-> EmptyMap,
     LayeredList |-> <<>>, IsolatedGraphs |-> <<>>]

RECURSIVE AddPins(_, _, _, _)
\* the two pin loops of AddNode over the array Pins from index i
AddPins(W, G, Pins, i) ==
    IF i > Len(Pins) THEN G
    ELSE LET Pin == Pins[i]
             G1 == IF W.pins[Pin].OriginalPin # NULL
                   THEN [G EXCEPT !.OriginalPinsMap = MapPut(@, W.pins[Pin].OriginalPin, Pin)]
                   ELSE G
         IN AddPins(W, [G1 EXCEPT !.PinsMap = MapPut(@, W.pins[Pin].Guid, Pin)], Pins, i + 1)

\* FFormatterGraph::AddNode
AddNode(W, G, InNode) ==
    LET G1 == [G EXCEPT !.Nodes = Append(@, InNode), !.NodesMap = MapPut(@, W.nodes[InNode].Guid, InNode)]
    IN AddPins(W, AddPins(W, G1, W.nodes[InNode].InPins, 1), W.nodes[InNode].OutPins, 1)

RECURSIVE DisconnectOthers(_, _, _)
\* a loop of RemoveNode: every edge of Edges from index i is removed from
\* the list of the node at its far end
DisconnectOthers(W, Edges, i) ==
    IF i > Len(Edges) THEN W
    ELSE DisconnectOthers(Disconnect(W, W.pins[Edges[i].To].OwningNode, Edges[i].To, Edges[i].From), Edges, i + 1)

\* RemoveNode without its loop over the OutEdges of the node
RemoveNodeInEdgesOnly(S, NodeToRemove) ==
    LET W2 == DisconnectOthers(S.W, S.W.nodes[NodeToRemove].InEdges, 1)
        Pins == W2.nodes[NodeToRemove].InPins \o W2.nodes[NodeToRemove].OutPins
        G == S.G
    IN [W |-> DeleteNode(W2, NodeToRemove),
        G |-> [G EXCEPT !.Nodes = RemoveItem(@, NodeToRemove),
                        !.NodesMap = MapRemove(@, W2.nodes[NodeToRemove].Guid),
                        !.OriginalPinsMap = [x \in (DOMAIN @) \ {W2.pins[Pins[i]].OriginalPin : i \in DOMAIN Pins} |-> @[x]],
                        !.PinsMap = [x \in (DOMAIN @) \ {W2.pins[Pins[i]].Guid : i \in DOMAIN Pins} |-> @[x]]]]

\* FFormatterGraph::RemoveNode
RemoveNode(S, NodeToRemove) ==
    LET W1 == DisconnectOthers(S.W, S.W.nodes[NodeToRemove].InEdges, 1)
        W2 == DisconnectOthers(W1, W1.nodes[NodeToRemove].OutEdges, 1)
        Pins == W2.nodes[NodeToRemove].InPins \o W2.nodes[NodeToRemove].OutPins
        G == S.G
    IN [W |-> DeleteNode(W2, NodeToRemove),
        G |-> [G EXCEPT !.Nodes = RemoveItem(@, NodeToRemove),
                        !.NodesMap = MapRemove(@, W2.nodes[NodeToRemove].Guid),
                        !.OriginalPinsMap = [x \in (DOMAIN @) \ {W2.pins[Pins[i]].OriginalPin : i \in DOMAIN Pins} |-> @[x]],
                        !.PinsMap = [x \in (DOMAIN @) \ {W2.pins[Pins[i]].Guid : i \in DOMAIN Pins} |-> @[x]]]]

RECURSIVE CloneNodes(_, _, _)
\* the first loop of the copy constructor: S.G is the copy under construction
CloneNodes(S, OtherNodes, i) ==
    IF i > Len(OtherNodes) THEN S
    ELSE LET W1 == CopyNode(S.W, OtherNodes[i])
         IN CloneNodes([W |-> W1, G |-> AddNode(W1, S.G, S.W.next)], OtherNodes, i + 1)

RECURSIVE CloneEdgeListShallow(_, _, _, _, _)
\* the inner loop of the copy constructor without the look-up in PinsMap: the
\* new edge joins the pins of the other graph
CloneEdgeListShallow(W, G, Guid, Edges, i) ==
    IF i > Len(Edges) THEN W
    ELSE CloneEdgeListShallow(Connect(W, G.NodesMap[Guid], Edges[i].From, Edges[i].To), G, Guid, Edges, i + 1)

RECURSIVE CloneEdgeList(_, _, _, _, _)
\* an inner loop of the copy constructor over the edge list Edges of a node
\* with guid Guid of the other graph
CloneEdgeList(W, G, Guid, Edges, i) ==
    IF i > Len(Edges) THEN W
    ELSE LET From == G.PinsMap[W.pins[Edges[i].From].Guid]
             To == G.PinsMap[W.pins[Edges[i].To].Guid]
         IN CloneEdgeList(Connect(W, G.NodesMap[Guid], From, To), G, Guid, Edges, i + 1)

RECURSIVE CloneEdgesInOnly(_, _, _, _)
\* the second loop of the copy constructor without its loop over OutEdges
CloneEdgesInOnly(W, G, OtherNodes, i) ==
    IF i > Len(OtherNodes) THEN W
    ELSE CloneEdgesInOnly(CloneEdgeList(W, G, W.nodes[OtherNodes[i]].Guid, W.nodes[OtherNodes[i]].InEdges, 1),
                          G, OtherNodes, i + 1)

RECURSIVE CloneEdges(_, _, _, _)
\* the second loop of the copy constructor
CloneEdges(W, G, OtherNodes, i) ==
    IF i > Len(OtherNodes) THEN W
    ELSE LET o == W.nodes[OtherNodes[i]]
             W1 == CloneEdgeList(W, G, o.Guid, o.InEdges, 1)
             W2 == CloneEdgeList(W1, G, o.Guid, o.OutEdges, 1)
         IN CloneEdges(W2, G, OtherNodes, i + 1)

\* IsolatedGraphs.Add: N is the state whose graph is the new isolated graph
AddIsolatedGraph(S, N) == [W |-> N.W, G |-> [S.G EXCEPT !.IsolatedGraphs = Append(@, N.G)]]

RECURSIVE CloneIsolated(_, _, _)
\* the last loop of the copy constructor: S.G is the copy under construction
CloneIsolated(S, Isolated, i) ==
    IF i > Len(Isolated) THEN S
    ELSE CloneIsolated(AddIsolatedGraph(S, CloneGraph(S.W, Isolated[i])), Isolated, i + 1)

\* FFormatterGraph::FFormatterGraph(const FFormatterGraph&): the state whose
\* graph is the copy of Other
CloneGraph(W, Other) ==
    LET S1 == CloneNodes([W |-> W, G |-> EmptyGraph], Other.Nodes, 1)
    IN CloneIsolated([W |-> CloneEdges(S1.W, S1.G, Other.Nodes, 1), G |-> S1.G], Other.IsolatedGraphs, 1)

RECURSIVE DeleteNodes(_, _, _)
\* the first loop of the destructor
DeleteNodes(W, Nodes, i) == IF i > Len(Nodes) THEN W ELSE DeleteNodes(DeleteNode(W, Nodes[i]), Nodes, i + 1)

RECURSIVE DeleteIsolated(_, _, _)
\* the second loop of the destructor
DeleteIsolated(W, Isolated, i) ==
    IF i > Len(Isolated) THEN W ELSE DeleteIsolated(DeleteGraph(W, Isolated[i]), Isolated, i + 1)

\* FFormatterGraph::~FFormatterGraph
DeleteGraph(W, G) == DeleteIsolated(DeleteNodes(W, G.Nodes, 1), G.IsolatedGraphs, 1)

RECURSIVE GetPins(_, _, _)
\* FFormatterGraph::GetInputPins and GetOutputPins: the pins of direction
\* Direction of the nodes of G, or of the nodes of its isolated graphs
GetPins(W, G, Direction) ==
    IF Len(G.IsolatedGraphs) > 0
    THEN AppendNew(<<>>, Flatten([i \in DOMAIN G.IsolatedGraphs |-> GetPins(W, G.IsolatedGraphs[i], Direction)]))
    ELSE AppendNew(<<>>, Flatten([i \in DOMAIN G.Nodes |->
             IF Direction = "Input" THEN W.nodes[G.Nodes[i]].InPins ELSE W.nodes[G.Nodes[i]].OutPins]))

RECURSIVE GetOriginalNodes(_, _)
\* FFormatterGraph::GetOriginalNodes, in the order of insertion in the set
GetOriginalNodes(W, G) ==
    IF Len(G.IsolatedGraphs) > 0
    THEN AppendNew(<<>>, Flatten([i \in DOMAIN G.IsolatedGraphs |-> GetOriginalNodes(W, G.IsolatedGraphs[i])]))
    ELSE AppendNew(<<>>, Flatten([i \in DOMAIN G.Nodes |->
             (IF W.nodes[G.Nodes[i]].SubGraph # <<>> THEN GetOriginalNodes(W, W.nodes[G.Nodes[i]].SubGraph[1]) ELSE <<>>)
             \o (IF W.nodes[G.Nodes[i]].OriginalNode # NULL THEN <<W.nodes[G.Nodes[i]].OriginalNode>> ELSE <<>>)]))

\* FFormatterNode::SetSubGraph: the node gets a new pin for every pin of the
\* nodes of the subgraph, with the guid, direction and original pin of that
\* pin.  New pin i is at address W.next + i - 1.
SetSubGraph(W, Node, InSubGraph) ==
    LET Ins == GetPins(W, InSubGraph, "Input")
        Outs == GetPins(W, InSubGraph, "Output")
        All == Ins \o Outs
        a == W.next
        newPins == [x \in a..(a + Len(All) - 1) |->
                       NewPin(W.pins[All[x - a + 1]].Guid, W.pins[All[x - a + 1]].OriginalPin,
                              W.pins[All[x - a + 1]].Direction, Node)]
    IN [nodes |-> [W.nodes EXCEPT ![Node].SubGraph = <<InSubGraph>>,
                                  ![Node].InPins = @ \o [i \in 1..Len(Ins) |-> a + i - 1],
                                  ![Node].OutPins = @ \o [i \in 1..Len(Outs) |-> a + Len(Ins) + i - 1]],
        pins |-> [x \in (DOMAIN W.pins) \cup (DOMAIN newPins) |-> IF x \in DOMAIN newPins THEN newPins[x] ELSE W.pins[x]],
        next |-> a + Len(All)]

\* FFormatterGraph::GetSortedCommentNodes: the selected comment nodes, by
\* CommentDepth from high to low.  TArray::Sort is not stable: comment nodes
\* of equal depth come out in any order, which H.CommentOrder fixes.
GetSortedCommentNodes(H, SelectedNodes) == SelectSeq(H.CommentOrder, LAMBDA c : c \in SelectedNodes)

\* FFormatterGraph::PickChildren: the selected nodes under the comment node
\* that no node has picked, which become picked
PickChildren(H, InNode, SelectedNodes, PickedNodes) == (H.Under[InNode] \cap SelectedNodes) \ PickedNodes

RECURSIVE NewGraph(_, _, _, _)
\* the call of SetSubGraph in CollapseNode: Sub is the state whose graph is
\* the subgraph BuildSubGraph made
SetSubGraphOf(Sub, Node) == SetSubGraph(Sub.W, Node, Sub.G)

\* FFormatterGraph::CollapseNode with BuildSubGraph: the state has the new
\* node at address S.W.next (the graph S.G does not change)
CollapseNode(W, H, InNode, SelectedNodes, PickedNodes) ==
    LET SubSelectedNodes == PickChildren(H, InNode, SelectedNodes, PickedNodes)
    IN IF SubSelectedNodes # {}
       THEN SetSubGraphOf(NewGraph(NodeFromUENode(W, H, InNode), H, SubSelectedNodes, FALSE), W.next)
       ELSE NodeFromUENode(W, H, InNode)

\* the call of AddNode in the loops of BuildNodes: W1 is the heap with the
\* new node, which is at address S.W.next
AddBuiltNode(S, W1, PickedNodes) == [W |-> W1, G |-> AddNode(W1, S.G, S.W.next), PickedNodes |-> PickedNodes]

RECURSIVE BuildCommentNodes(_, _, _, _, _)
\* the first loop of BuildNodes, from index i of the sorted comment nodes
\* down to the first: S has the field PickedNodes of the graph next to W, G
BuildCommentNodes(S, H, SelectedNodes, SortedCommentNodes, i) ==
    IF i = 0 THEN S
    ELSE IF SortedCommentNodes[i] \in S.PickedNodes
         THEN BuildCommentNodes(S, H, SelectedNodes, SortedCommentNodes, i - 1)
         ELSE LET Picked == S.PickedNodes \cup PickChildren(H, SortedCommentNodes[i], SelectedNodes, S.PickedNodes)
              IN BuildCommentNodes(AddBuiltNode(S, CollapseNode(S.W, H, SortedCommentNodes[i], SelectedNodes, S.PickedNodes),
                                                Picked \cup {SortedCommentNodes[i]}),
                                   H, SelectedNodes, SortedCommentNodes, i - 1)

RECURSIVE BuildOtherNodes(_, _, _, _)
\* the second loop of BuildNodes, from host node u of the node array
BuildOtherNodes(S, H, SelectedNodes, u) ==
    IF u > Len(H.Pins) THEN S
    ELSE IF u \notin SelectedNodes \/ u \in S.PickedNodes THEN BuildOtherNodes(S, H, SelectedNodes, u + 1)
         ELSE BuildOtherNodes(AddBuiltNode(S, NodeFromUENode(S.W, H, u), S.PickedNodes \cup {u}), H, SelectedNodes, u + 1)

\* the state when BuildNodes returns: PickedNodes is a field of the graph
\* that nothing reads after it
WithoutPickedNodes(S) == [W |-> S.W, G |-> S.G]

\* FFormatterGraph::BuildNodes
BuildNodes(S, H, SelectedNodes) ==
    LET Sorted == GetSortedCommentNodes(H, SelectedNodes)
    IN WithoutPickedNodes(BuildOtherNodes(
           BuildCommentNodes([W |-> S.W, G |-> S.G, PickedNodes |-> {}], H, SelectedNodes, Sorted, Len(Sorted)),
           H, SelectedNodes, 1))

\* the edges GetEdgeForNode makes of the links of host node u: for every pin
\* of u and every linked pin whose node is selected and not in Inner, the
\* edge (own pin, other pin)
EdgesOfUENode(G, H, u, Inner, SelectedNodes) ==
    LET ps == H.Pins[u]
        Kept(p) == SelectSeq(LinkedTo(H, p), LAMBDA q : OwningUENode(H, q) \notin Inner /\ OwningUENode(H, q) \in SelectedNodes)
    IN Flatten([i \in DOMAIN ps |->
                   [k \in DOMAIN Kept(ps[i]) |-> [From |-> G.OriginalPinsMap[ps[i]], To |-> G.OriginalPinsMap[Kept(ps[i])[k]]]]])

\* FFormatterGraph::GetEdgeForNode
GetEdgeForNode(W, G, H, Node, SelectedNodes) ==
    IF W.nodes[Node].SubGraph # <<>>
    THEN LET InnerSelectedNodes == GetOriginalNodes(W, W.nodes[Node].SubGraph[1])
         IN Flatten([i \in DOMAIN InnerSelectedNodes |->
                        EdgesOfUENode(G, H, InnerSelectedNodes[i], Range(InnerSelectedNodes), SelectedNodes)])
    ELSE EdgesOfUENode(G, H, W.nodes[Node].OriginalNode, {}, SelectedNodes)

RECURSIVE ConnectAll(_, _, _, _)
\* the inner loop of BuildEdges
ConnectAll(W, Node, Edges, i) ==
    IF i > Len(Edges) THEN W ELSE ConnectAll(Connect(W, Node, Edges[i].From, Edges[i].To), Node, Edges, i + 1)

RECURSIVE BuildEdges(_, _, _, _, _)
\* FFormatterGraph::BuildEdges
BuildEdges(W, G, H, SelectedNodes, i) ==
    IF i > Len(G.Nodes) THEN W
    ELSE BuildEdges(ConnectAll(W, G.Nodes[i], GetEdgeForNode(W, G, H, G.Nodes[i], SelectedNodes), 1), G, H, SelectedNodes, i + 1)

RECURSIVE SortByPositionY(_, _, _)
\* Nodes.Sort of BuildNodesAndEdges: the nodes by the NodePosY of their host
\* nodes, which differ from node to node
SortByPositionY(W, H, Nodes) ==
    IF Nodes = <<>> THEN <<>>
    ELSE LET First == CHOOSE n \in Range(Nodes) :
                          \A m \in Range(Nodes) : H.NodePosY[W.nodes[n].OriginalNode] <= H.NodePosY[W.nodes[m].OriginalNode]
         IN <<First>> \o SortByPositionY(W, H, RemoveItem(Nodes, First))

\* the call of BuildEdges in BuildNodesAndEdges
BuildEdgesOf(S, H, SelectedNodes) == [W |-> BuildEdges(S.W, S.G, H, SelectedNodes, 1), G |-> S.G]

\* the call of Nodes.Sort in BuildNodesAndEdges
SortNodes(S, H) == [W |-> S.W, G |-> [S.G EXCEPT !.Nodes = SortByPositionY(S.W, H, @)]]

\* FFormatterGraph::BuildNodesAndEdges
BuildNodesAndEdges(W, H, SelectedNodes) ==
    SortNodes(BuildEdgesOf(BuildNodes([W |-> W, G |-> EmptyGraph], H, SelectedNodes), H, SelectedNodes), H)

RECURSIVE FindIsolatedForward(_, _, _, _, _)
\* the while loop of FindIsolated without the predecessors of Top
FindIsolatedForward(W, G, Stack, CheckedNodes, IsolatedNodes) ==
    IF Len(Stack) = 0 THEN [CheckedNodes |-> CheckedNodes, IsolatedNodes |-> IsolatedNodes]
    ELSE LET Top == Stack[Len(Stack)]
             Inner == IF W.nodes[Top].SubGraph # <<>> THEN Range(GetOriginalNodes(W, W.nodes[Top].SubGraph[1])) ELSE {}
             Pushed == AppendNew(<<>>, SelectSeq(GetSuccessors(W, Top), LAMBDA n : n \notin CheckedNodes))
         IN FindIsolatedForward(W, G, SubSeq(Stack, 1, Len(Stack) - 1) \o Pushed, CheckedNodes \cup Range(Pushed),
                                IsolatedNodes \cup {W.nodes[Top].OriginalNode} \cup Inner)

RECURSIVE FindIsolatedLoop(_, _, _, _, _)
\* the while loop of FindIsolated: the record of CheckedNodes and
\* IsolatedNodes when the stack is empty
FindIsolatedLoop(W, G, Stack, CheckedNodes, IsolatedNodes) ==
    IF Len(Stack) = 0 THEN [CheckedNodes |-> CheckedNodes, IsolatedNodes |-> IsolatedNodes]
    ELSE LET Top == Stack[Len(Stack)]
             Inner == IF W.nodes[Top].SubGraph # <<>> THEN Range(GetOriginalNodes(W, W.nodes[Top].SubGraph[1])) ELSE {}
             ConnectedNodes == GetSuccessors(W, Top) \o GetPredecessors(W, Top)
             Pushed == AppendNew(<<>>, SelectSeq(ConnectedNodes, LAMBDA n : n \notin CheckedNodes))
         IN FindIsolatedLoop(W, G, SubSeq(Stack, 1, Len(Stack) - 1) \o Pushed, CheckedNodes \cup Range(Pushed),
                             IsolatedNodes \cup {W.nodes[Top].OriginalNode} \cup Inner)

RECURSIVE FindIsolatedNodes(_, _, _, _, _)
\* the for loop of FindIsolated from node i of the temporary graph
FindIsolatedNodes(W, G, i, CheckedNodes, Result) ==
    IF i > Len(G.Nodes) THEN Result
    ELSE LET Fresh == G.Nodes[i] \notin CheckedNodes
             R == FindIsolatedLoop(W, G, IF Fresh THEN <<G.Nodes[i]>> ELSE <<>>,
                                   IF Fresh THEN CheckedNodes \cup {G.Nodes[i]} ELSE CheckedNodes, {})
         IN FindIsolatedNodes(W, G, i + 1, R.CheckedNodes,
                              IF R.IsolatedNodes # {} THEN Append(Result, R.IsolatedNodes) ELSE Result)

\* the body of FindIsolated after the construction of the temporary graph,
\* whose state is TempGraph
FindIsolatedIn(TempGraph) ==
    [W |-> DeleteGraph(TempGraph.W, TempGraph.G),
     Result |-> FindIsolatedNodes(TempGraph.W, TempGraph.G, 1, {}, <<>>)]

\* FFormatterGraph::FindIsolated: the result, and the heap when the temporary
\* graph is destroyed
FindIsolated(W, H, SelectedNodes) == FindIsolatedIn(NewGraph(W, H, SelectedNodes, TRUE))

RECURSIVE NewIsolatedGraphs(_, _, _, _)
\* the loop of the constructor over the isolated node sets found
NewIsolatedGraphs(S, H, FoundIsolatedGraphs, i) ==
    IF i > Len(FoundIsolatedGraphs) THEN S
    ELSE NewIsolatedGraphs(AddIsolatedGraph(S, NewGraph(S.W, H, FoundIsolatedGraphs[i], FALSE)), H, FoundIsolatedGraphs, i + 1)

\* the branch of the constructor that is not the single mode, after the
\* call of FindIsolated, which returned Found
BuildIsolatedGraphs(Found, H) ==
    IF Len(Found.Result) > 1 THEN NewIsolatedGraphs([W |-> Found.W, G |-> EmptyGraph], H, Found.Result, 1)
    ELSE IF Len(Found.Result) = 1 THEN BuildNodesAndEdges(Found.W, H, Found.Result[1])
    ELSE [W |-> Found.W, G |-> EmptyGraph]

\* FFormatterGraph::FFormatterGraph(UEdGraph*, SelectedNodes, Delegates,
\* IsSingleMode): the state whose graph is the new graph
NewGraph(W, H, SelectedNodes, IsSingleMode) ==
    IF IsSingleMode THEN BuildNodesAndEdges(W, H, SelectedNodes)
    ELSE BuildIsolatedGraphs(FindIsolated(W, H, SelectedNodes), H)

----------------------------------------------------------------------------
(* Cycle removal                                                           *)

\* FFormatterGraph::FindSourceNode: the first node in Nodes that is a source,
\* or nullptr
FindSourceNode(W, G) ==
    LET Found == SelectSeq(G.Nodes, LAMBDA n : IsSource(W, n))
    IN IF Found = <<>> THEN NULL ELSE Head(Found)

\* FFormatterGraph::FindSinkNode: the first node in Nodes that is a sink, or
\* nullptr
FindSinkNode(W, G) ==
    LET Found == SelectSeq(G.Nodes, LAMBDA n : IsSink(W, n))
    IN IF Found = <<>> THEN NULL ELSE Head(Found)

\* the comparison of FindMedianNode with > in the place of >=
MedianAcceptsGreater(DegreeDiff, MaxDegreeDiff) == DegreeDiff > MaxDegreeDiff

\* the comparison of FindMedianNode
MedianAccepts(DegreeDiff, MaxDegreeDiff) == DegreeDiff >= MaxDegreeDiff

RECURSIVE MedianLoop(_, _, _, _, _)
MedianLoop(W, Nodes, i, Result, MaxDegreeDiff) ==
    IF i > Len(Nodes) THEN Result
    ELSE LET DegreeDiff == Len(W.nodes[Nodes[i]].OutEdges) - Len(W.nodes[Nodes[i]].InEdges)
         IN IF MedianAccepts(DegreeDiff, MaxDegreeDiff)
            THEN MedianLoop(W, Nodes, i + 1, Nodes[i], DegreeDiff)
            ELSE MedianLoop(W, Nodes, i + 1, Result, MaxDegreeDiff)

\* FFormatterGraph::FindMedianNode
FindMedianNode(W, G) == MedianLoop(W, G.Nodes, 1, NULL, 0)

RECURSIVE RemoveSources(_)
\* the first loop of RemoveCycle, on the state of the clone
RemoveSources(S) ==
    LET SourceNode == FindSourceNode(S.W, S.G)
    IN IF SourceNode = NULL THEN S ELSE RemoveSources(RemoveNode(S, SourceNode))

RECURSIVE RemoveSinks(_)
\* the second loop of RemoveCycle, on the state of the clone
RemoveSinks(S) ==
    LET SinkNode == FindSinkNode(S.W, S.G)
    IN IF SinkNode = NULL THEN S ELSE RemoveSinks(RemoveNode(S, SinkNode))

\* DropEdge without its second Disconnect: the edge stays in the out-edge
\* list of the node at its other end
DropEdgeOneSide(W, G, MedianGuid, Edge) ==
    Disconnect(W, G.NodesMap[MedianGuid], G.PinsMap[W.pins[Edge.From].Guid], G.PinsMap[W.pins[Edge.To].Guid])

\* the body of the inner loop of RemoveCycle for one in-edge of the clone's
\* median node: the edge is taken out of both edge lists of this graph
DropEdge(W, G, MedianGuid, Edge) ==
    LET From == G.PinsMap[W.pins[Edge.From].Guid]
        To == G.PinsMap[W.pins[Edge.To].Guid]
        W1 == Disconnect(W, G.NodesMap[MedianGuid], From, To)
    IN Disconnect(W1, W1.pins[To].OwningNode, To, From)

RECURSIVE DropInEdges(_, _, _, _, _)
\* the inner loop of RemoveCycle
DropInEdges(W, G, MedianGuid, Edges, i) ==
    IF i > Len(Edges) THEN W
    ELSE DropInEdges(DropEdge(W, G, MedianGuid, Edges[i]), G, MedianGuid, Edges, i + 1)

RECURSIVE RemoveMedians(_, _)
\* the third loop of RemoveCycle: S is the state of the clone, G this graph
RemoveMedians(S, G) ==
    LET MedianNode == FindMedianNode(S.W, S.G)
    IN IF MedianNode = NULL THEN S
       ELSE LET W1 == DropInEdges(S.W, G, S.W.nodes[MedianNode].Guid, S.W.nodes[MedianNode].InEdges, 1)
            IN RemoveMedians(RemoveNode([W |-> W1, G |-> S.G], MedianNode), G)

\* FFormatterGraph::RemoveCycle: the heap after the call (the graph record
\* of this graph does not change: only edge lists of its nodes do)
RemoveCycle(W, G) ==
    LET S3 == RemoveMedians(RemoveSinks(RemoveSources(CloneGraph(W, G))), G)
    IN DeleteGraph(S3.W, S3.G)

----------------------------------------------------------------------------
(* Longest-path layering                                                   *)

\* GetLeavesWidthPathDepthEqu0 without the look at the successors
GetLeavesIgnoringSuccessors(W, G) ==
    SelectSeq(G.Nodes, LAMBDA n : ~(W.nodes[n].PathDepth # 0))

\* FFormatterGraph::GetLeavesWidthPathDepthEqu0
GetLeavesWidthPathDepthEqu0(W, G) ==
    SelectSeq(G.Nodes, LAMBDA n : ~(W.nodes[n].PathDepth # 0 \/ AnySuccessorPathDepthEqu0(W, n)))

RECURSIVE LongestPathLoop(_, _, _)
\* the loop of CalculateLongestPath: [W |-> heap, LongestPath |-> result]
LongestPathLoop(W, G, LongestPath) ==
    LET Leaves == GetLeavesWidthPathDepthEqu0(W, G)
    IN IF Len(Leaves) = 0 THEN [W |-> W, LongestPath |-> LongestPath - 1]
       ELSE LongestPathLoop([W EXCEPT !.nodes = [a \in DOMAIN @ |-> IF a \in Range(Leaves)
                                                                 THEN [@[a] EXCEPT !.PathDepth = LongestPath]
                                                                 ELSE @[a]]],
                            G, LongestPath + 1)

\* FFormatterGraph::CalculateLongestPath
CalculateLongestPath(W, G) == LongestPathLoop(W, G, 1)

\* FFormatterGraph::GetSuccessorsForNodes
GetSuccessorsForNodes(W, Nodes) ==
    Flatten([i \in DOMAIN Nodes |-> SelectSeq(GetSuccessors(W, Nodes[i]), LAMBDA n : ~Contains(Nodes, n))])

\* GetNodesGreaterThan without the test on Excluded
GetNodesGreaterThanAll(W, G, i, Excluded) ==
    SelectSeq(G.Nodes, LAMBDA n : W.nodes[n].PathDepth >= i)

\* FFormatterGraph::GetNodesGreaterThan
GetNodesGreaterThan(W, G, i, Excluded) ==
    SelectSeq(G.Nodes, LAMBDA n : ~Contains(Excluded, n) /\ W.nodes[n].PathDepth >= i)

\* the test of DoLayering satisfied by one finished predecessor
AnyPredecessorFinished(W, Set, Node) ==
    GetPredecessors(W, Node) = <<>> \/ \E p \in Range(GetPredecessors(W, Node)) : Contains(Set, p)

\* the test of DoLayering on a node to process
PredecessorsFinished(W, Set, Node) == \A p \in Range(GetPredecessors(W, Node)) : Contains(Set, p)

RECURSIVE LayeringLoop(_, _, _, _, _)
\* the loop of DoLayering from i down to 1: the layered list
LayeringLoop(W, G, i, Set, LayeredList) ==
    IF i = 0 THEN LayeredList
    ELSE LET Successors == GetSuccessorsForNodes(W, Set)
             NodesToProcess == GetNodesGreaterThan(W, G, i, Set) \o Successors
             Layer == AppendNew(<<>>, SelectSeq(NodesToProcess, LAMBDA n : PredecessorsFinished(W, Set, n)))
         IN LayeringLoop(W, G, i - 1, AppendNew(Set, Layer), Append(LayeredList, Layer))

\* FFormatterGraph::DoLayering
DoLayering(S) ==
    LET R == CalculateLongestPath(S.W, S.G)
    IN [W |-> R.W, G |-> [S.G EXCEPT !.LayeredList = LayeringLoop(R.W, S.G, R.LongestPath, <<>>, <<>>)]]

----------------------------------------------------------------------------
(* Dummy nodes                                                             *)

\* the body of the second inner loop of AddDummyNodes for the long edge Edge
\* of Node, whose next layer is layer number j of the layered list
SplitLongEdge(S, Node, Edge, j) ==
    LET W1 == Disconnect(S.W, Node, Edge.From, Edge.To)
        dummyNode == W1.next
        W2 == DummyNode(W1)
        G2 == AddNode(W2, S.G, dummyNode)
        InPin == W2.nodes[dummyNode].InPins[1]
        OutPin == W2.nodes[dummyNode].OutPins[1]
        W3 == Connect(W2, Node, Edge.From, InPin)
        W4 == Connect(W3, dummyNode, InPin, Edge.From)
        W5 == Connect(W4, dummyNode, OutPin, Edge.To)
        W6 == Connect(W5, W5.pins[Edge.To].OwningNode, Edge.To, OutPin)
    IN [W |-> W6, G |-> [G2 EXCEPT !.LayeredList[j] = Append(@, dummyNode)]]

RECURSIVE SplitLongEdges(_, _, _, _, _)
SplitLongEdges(S, Node, LongEdges, j, k) ==
    IF k > Len(LongEdges) THEN S
    ELSE SplitLongEdges(SplitLongEdge(S, Node, LongEdges[k], j), Node, LongEdges, j, k + 1)

RECURSIVE DummyLayerLoop(_, _, _)
\* the loop of AddDummyNodes over the nodes of layer number j - 1 from
\* index n; the layer is the one of the layered list when the loop started
DummyLayerLoop(S, j, n) ==
    IF n > Len(S.G.LayeredList[j - 1]) THEN S
    ELSE LET Node == S.G.LayeredList[j - 1][n]
             LongEdges == SelectSeq(S.W.nodes[Node].OutEdges,
                                    LAMBDA e : ~Contains(S.G.LayeredList[j], S.W.pins[e.To].OwningNode))
         IN DummyLayerLoop(SplitLongEdges(S, Node, LongEdges, j, 1), j, n + 1)

RECURSIVE DummyLoop(_, _)
\* the outer loop of AddDummyNodes: j is the number (from 1) of the next layer
DummyLoop(S, j) ==
    IF j > Len(S.G.LayeredList) THEN S ELSE DummyLoop(DummyLayerLoop(S, j, 1), j + 1)

\* FFormatterGraph::AddDummyNodes
AddDummyNodes(S) == DummyLoop(S, 2)

----------------------------------------------------------------------------
(* Ordering                                                                *)
(* An edge with its cached FromIndex and ToIndex is the record             *)
(* [From, To, FromIndex, ToIndex].  Pin indices count from 0; TArray::Find *)
(* gives INDEX_NONE = -1 for a pin that is not in the array.               *)

\* FFormatterNode::GetInputPinCount
GetInputPinCount(W, Node) == Len(W.nodes[Node].InPins)

\* FFormatterNode::GetOutputPinCount
GetOutputPinCount(W, Node) == Len(W.nodes[Node].OutPins)

\* FFormatterNode::GetInputPinIndex
GetInputPinIndex(W, Node, InputPin) == IndexOf(W.nodes[Node].InPins, InputPin) - 1

\* FFormatterNode::GetOutputPinIndex
GetOutputPinIndex(W, Node, OutputPin) == IndexOf(W.nodes[Node].OutPins, OutputPin) - 1

\* IsCrossing with comparisons that are not strict
IsCrossingOrEqual(Edge1, Edge2) ==
    \/ (Edge1.FromIndex <= Edge2.FromIndex /\ Edge1.ToIndex >= Edge2.ToIndex)
    \/ (Edge1.FromIndex >= Edge2.FromIndex /\ Edge1.ToIndex <= Edge2.ToIndex)

\* FFormatterEdge::IsCrossing
IsCrossing(Edge1, Edge2) ==
    \/ (Edge1.FromIndex < Edge2.FromIndex /\ Edge1.ToIndex > Edge2.ToIndex)
    \/ (Edge1.FromIndex > Edge2.FromIndex /\ Edge1.ToIndex < Edge2.ToIndex)

RECURSIVE LinkedLoop(_, _, _, _, _, _, _, _)
\* the inner loop of GetEdgeLinkedToLayer for one edge, over Layer from
\* index k with the running Index: the edge is added, with its indices, each
\* time the loop meets the node that owns Edge.To
LinkedLoop(W, Node, Edge, Layer, k, Index, StartIndex, Direction) ==
    IF k > Len(Layer) THEN <<>>
    ELSE LET NextLayerNode == Layer[k]
         IN IF W.pins[Edge.To].OwningNode # NextLayerNode
            THEN LinkedLoop(W, Node, Edge, Layer, k + 1,
                            Index + (IF Direction = "Output" THEN GetInputPinCount(W, NextLayerNode)
                                                             ELSE GetOutputPinCount(W, NextLayerNode)),
                            StartIndex, Direction)
            ELSE LET Index1 == Index + (IF Direction = "Output" THEN GetInputPinIndex(W, NextLayerNode, Edge.To)
                                                                 ELSE GetOutputPinIndex(W, NextLayerNode, Edge.To))
                     FromIndex == StartIndex + (IF Direction = "Output" THEN GetOutputPinIndex(W, Node, Edge.From)
                                                                        ELSE GetInputPinIndex(W, Node, Edge.From))
                 IN <<[From |-> Edge.From, To |-> Edge.To, FromIndex |-> FromIndex, ToIndex |-> Index1]>>
                    \o LinkedLoop(W, Node, Edge, Layer, k + 1, Index1, StartIndex, Direction)

\* FFormatterNode::GetEdgeLinkedToLayer
GetEdgeLinkedToLayer(W, Node, Layer, StartIndex, Direction) ==
    LET Edges == IF Direction = "Output" THEN W.nodes[Node].OutEdges ELSE W.nodes[Node].InEdges
    IN Flatten([e \in DOMAIN Edges |-> LinkedLoop(W, Node, Edges[e], Layer, 1, 0, StartIndex, Direction)])

\* FFormatterNode::CalcBarycenter: the quotient Sum / Edges.Num() as the
\* fraction [num, den], 0.0f as 0 / 1
CalcBarycenter(W, Node, Layer, StartIndex, Direction) ==
    LET Edges == GetEdgeLinkedToLayer(W, Node, Layer, StartIndex, Direction)
    IN IF Len(Edges) = 0 THEN [num |-> 0, den |-> 1]
       ELSE [num |-> SumSeq([e \in DOMAIN Edges |-> Edges[e].ToIndex]), den |-> Len(Edges)]

\* the predicate of SortInLayer turned round
OrderValueGreater(A, B) == A.num * B.den > B.num * A.den

\* A.OrderValue < B.OrderValue, the predicate SortInLayer sorts by
OrderValueLess(A, B) == A.num * B.den < B.num * A.den

\* the StartIndex of the node at index n of FreeLayer in SortInLayer
StartIndexAt(W, FreeLayer, n, Direction) ==
    SumSeq([m \in 1..(n - 1) |-> IF Direction = "Output" THEN GetOutputPinCount(W, FreeLayer[m])
                                                          ELSE GetInputPinCount(W, FreeLayer[m])])

\* the OrderValue SortInLayer gives to every node of FreeLayer
OrderValues(W, FixedLayer, FreeLayer, Direction) ==
    [n \in DOMAIN FreeLayer |-> CalcBarycenter(W, FreeLayer[n], FixedLayer, StartIndexAt(W, FreeLayer, n, Direction), Direction)]

\* TArray::Sort by OrderValue.  The sort is not stable: every arrangement
\* of the layer in which no node comes before one of smaller OrderValue can
\* be the result.
SortResults(FreeLayer, Value) ==
    {[n \in DOMAIN FreeLayer |-> FreeLayer[p[n]]] :
        p \in {q \in Permutations(DOMAIN FreeLayer) :
                  \A m, n \in DOMAIN FreeLayer : m < n => ~OrderValueLess(Value[q[n]], Value[q[m]])}}

RECURSIVE SortLoop(_, _, _, _, _)
\* the loop of SortInLayer from layer i (counted from 1) to End by Step:
\* the set of the orders it can end with
SortLoop(W, Order, i, End, Step) ==
    IF i = End THEN {Order}
    ELSE LET Direction == IF Step = -1 THEN "Output" ELSE "Input"
             FixedLayer == Order[i - Step]
             FreeLayer == Order[i]
             Sorted == SortResults(FreeLayer, OrderValues(W, FixedLayer, FreeLayer, Direction))
         IN UNION {SortLoop(W, [Order EXCEPT ![i] = L], i + Step, End, Step) : L \in Sorted}

\* FFormatterGraph::SortInLayer: the set of the orders it can leave
SortInLayer(W, Order, Direction) ==
    IF Len(Order) < 2 THEN {Order}
    ELSE IF Direction = "Output" THEN SortLoop(W, Order, Len(Order) - 1, 0, -1)
         ELSE SortLoop(W, Order, 2, Len(Order) + 1, 1)

RECURSIVE BetweenLoop(_, _, _, _, _, _)
BetweenLoop(W, Layer1, Layer2, Direction, n, Index) ==
    IF n > Len(Layer1) THEN <<>>
    ELSE GetEdgeLinkedToLayer(W, Layer1[n], Layer2, Index, Direction)
         \o BetweenLoop(W, Layer1, Layer2, Direction, n + 1,
                        Index + (IF Direction = "Output" THEN GetOutputPinCount(W, Layer1[n])
                                                         ELSE GetInputPinCount(W, Layer1[n])))

\* GetEdgeBetweenTwoLayer
GetEdgeBetweenTwoLayer(W, Layer1, Layer2, Direction) == BetweenLoop(W, Layer1, Layer2, Direction, 1, 0)

RECURSIVE PopLoop(_)
\* the while loop of CalculateCrossing: the last edge is popped and compared
\* with every edge left
PopLoop(NodeEdges) ==
    IF Len(NodeEdges) = 0 THEN 0
    ELSE LET Edge1 == NodeEdges[Len(NodeEdges)]
             Rest == SubSeq(NodeEdges, 1, Len(NodeEdges) - 1)
         IN Cardinality({k \in DOMAIN Rest : IsCrossing(Edge1, Rest[k])}) + PopLoop(Rest)

\* CalculateCrossing
CalculateCrossing(W, Order) ==
    SumSeq([i \in 1..(Len(Order) - 1) |-> PopLoop(GetEdgeBetweenTwoLayer(W, Order[i], Order[i + 1], "Output"))])

\* the test of DoOrderingSweep with the comparison turned round
IsWorse(W, Order, Best) == CalculateCrossing(W, Order) > CalculateCrossing(W, Best)

\* the test of DoOrderingSweep with <= in the place of <
IsBetterOrEqual(W, Order, Best) == CalculateCrossing(W, Order) <= CalculateCrossing(W, Best)

\* the test of DoOrderingSweep that replaces Best
IsBetter(W, Order, Best) == CalculateCrossing(W, Order) < CalculateCrossing(W, Best)

RECURSIVE SweepLoop(_, _, _, _, _)
\* the loop of DoOrderingSweep from iteration i: the set of the records
\* [Best, Orders] it can end with, Orders being the sequence of the orders
\* the iterations produced
SweepLoop(W, Best, Order, Orders, i) ==
    IF i >= MaxOrderingIterations THEN {[Best |-> Best, Orders |-> Orders]}
    ELSE UNION {SweepLoop(W, IF IsBetter(W, O, Best) THEN O ELSE Best, O, Append(Orders, O), i + 1) :
                   O \in SortInLayer(W, Order, IF i % 2 = 0 THEN "Input" ELSE "Output")}

\* FFormatterGraph::DoOrderingSweep
DoOrderingSweep(W, G) == SweepLoop(W, G.LayeredList, G.LayeredList, <<>>, 0)

----------------------------------------------------------------------------
(* The pipeline of FFormatterGraph::Format on one connected graph          *)

\* the first host pin of host node u is PinBase(Counts, u) + 1: the pins are
\* numbered node after node, the input pins of a node before its output pins
PinBase(Counts, u) == SumSeq([v \in 1..(u - 1) |-> Counts[v].In + Counts[v].Out])

\* the host graph whose node u has Counts[u].In input pins and Counts[u].Out
\* output pins, with the links Links
HostGraphOf(Counts, Links) ==
    [Pins |-> [u \in DOMAIN Counts |-> [i \in 1..(Counts[u].In + Counts[u].Out) |-> PinBase(Counts, u) + i]],
     Direction |-> [p \in 1..PinBase(Counts, Len(Counts) + 1) |->
                       LET u == CHOOSE v \in DOMAIN Counts : PinBase(Counts, v) < p /\ p <= PinBase(Counts, v + 1)
                       IN IF p - PinBase(Counts, u) <= Counts[u].In THEN "Input" ELSE "Output"],
     Links |-> Links,
     Comments |-> {}, Under |-> [u \in DOMAIN Counts |-> {}], CommentOrder |-> <<>>,
     NodePosY |-> [u \in DOMAIN Counts |-> u]]

\* the links an output pin of a node of From can have to an input pin of a
\* node of To
LinksBetween(Counts, From, To) ==
    {l \in (1..PinBase(Counts, Len(Counts) + 1)) \X (1..PinBase(Counts, Len(Counts) + 1)) :
        \E u \in From, v \in To :
            /\ PinBase(Counts, u) + Counts[u].In < l[1] /\ l[1] <= PinBase(Counts, u + 1)
            /\ PinBase(Counts, v) < l[2] /\ l[2] <= PinBase(Counts, v) + Counts[v].In}

\* the host graph with nodes 1..n, one input and one output pin per node
\* (pins 2u - 1 and 2u of node u), and the links Links
HostGraph(n, Links) == HostGraphOf([u \in 1..n |-> [In |-> 1, Out |-> 1]], Links)

AllLinks(n) == {<<2 * u, 2 * v - 1>> : u, v \in 1..n}

RECURSIVE ReachFrom(_, _)
\* the host nodes joined to a node of Seen by links, whatever their direction
ReachFrom(H, Seen) ==
    LET More == {u \in DOMAIN H.Pins : \E l \in H.Links :
                    \/ (OwningUENode(H, l[1]) \in Seen /\ OwningUENode(H, l[2]) = u)
                    \/ (OwningUENode(H, l[2]) \in Seen /\ OwningUENode(H, l[1]) = u)}
    IN IF More \subseteq Seen THEN Seen ELSE ReachFrom(H, Seen \cup More)

\* FindIsolated finds one component: only such a graph is laid out by the
\* pipeline of Format
IsConnected(H) == ReachFrom(H, {1}) = DOMAIN H.Pins

HostGraphs ==
    {H \in {HostGraph(n, L) : n \in 1..MaxNodes, L \in SubsetsUpTo(AllLinks(MaxNodes), MaxLinks)} :
        /\ \A l \in H.Links : l[1] <= 2 * Len(H.Pins) /\ l[2] <= 2 * Len(H.Pins)
        /\ IsConnected(H)}

\* Two shapes of host graph with several pins per node: two ranks of two
\* nodes, and three ranks of one, two and one node.  A node is given as its
\* numbers of input and output pins.
TwoRanks == <<[In |-> 0, Out |-> 1], [In |-> 0, Out |-> 2], [In |-> 2, Out |-> 0], [In |-> 1, Out |-> 0]>>

ThreeRanks == <<[In |-> 0, Out |-> 2], [In |-> 1, Out |-> 1], [In |-> 2, Out |-> 1], [In |-> 2, Out |-> 0]>>

RankedHostGraphs ==
    {H \in {HostGraphOf(TwoRanks, L) : L \in SubsetsUpTo(LinksBetween(TwoRanks, {1, 2}, {3, 4}), MaxLinks)}
           \cup {HostGraphOf(ThreeRanks, L) :
                    L \in SubsetsUpTo(LinksBetween(ThreeRanks, {1}, {2, 3}) \cup LinksBetween(ThreeRanks, {2, 3}, {4}), MaxLinks)} :
        IsConnected(H)}

EmptyHeap == [nodes |-> EmptyMap, pins |-> EmptyMap, next |-> 1]

Init ==
    /\ \E H \in HostGraphs \cup RankedHostGraphs :
          \E S \in {BuildNodesAndEdges(EmptyHeap, H, DOMAIN H.Pins)} :
             /\ heap = S.W
             /\ graph = S.G
             /\ before = S
    /\ pc = "RemoveCycle"
    /\ aux = <<>>

StepRemoveCycle ==
    /\ pc = "RemoveCycle"
    /\ heap' = RemoveCycle(heap, graph)
    /\ before' = [W |-> heap, G |-> graph]
    /\ pc' = "DoLayering"
    /\ UNCHANGED <<graph, aux>>

StepDoLayering ==
    /\ pc = "DoLayering"
    /\ \E S \in {DoLayering([W |-> heap, G |-> graph])} : heap' = S.W /\ graph' = S.G
    /\ before' = [W |-> heap, G |-> graph]
    /\ pc' = "AddDummyNodes"
    /\ UNCHANGED aux

StepAddDummyNodes ==
    /\ pc = "AddDummyNodes"
    /\ \E S \in {AddDummyNodes([W |-> heap, G |-> graph])} : heap' = S.W /\ graph' = S.G
    /\ before' = [W |-> heap, G |-> graph]
    /\ pc' = "DoOrderingSweep"
    /\ UNCHANGED aux

StepDoOrderingSweep ==
    /\ pc = "DoOrderingSweep"
    /\ \E R \in DoOrderingSweep(heap, graph) :
          /\ graph' = [graph EXCEPT !.LayeredList = R.Best]
          /\ aux' = R.Orders
    /\ before' = [W |-> heap, G |-> graph]
    /\ pc' = "DoPositioning"
    /\ UNCHANGED heap

Next == StepRemoveCycle \/ StepDoLayering \/ StepAddDummyNodes \/ StepDoOrderingSweep

Spec == Init /\ [][Next]_vars

----------------------------------------------------------------------------
(* Properties of the pipeline                                              *)

\* the nodes the out-edges of Node lead to
OutNeighbours(W, Node) == Range(GetSuccessors(W, Node))

RECURSIVE Descendants(_, _)
\* the nodes reached from the set Seen by one or more out-edges
Descendants(W, Seen) ==
    LET More == UNION {OutNeighbours(W, n) : n \in Seen}
    IN IF More \subseteq Seen THEN Seen ELSE Descendants(W, Seen \cup More)

\* no node of G reaches itself along out-edges
Acyclic(W, G) == \A n \in Range(G.Nodes) : n \notin Descendants(W, OutNeighbours(W, n))

\* the layers (numbers from 1) of LayeredList that hold Node
LayersOf(G, Node) == {i \in DOMAIN G.LayeredList : Contains(G.LayeredList[i], Node)}

\* every edge of the list Edges of Node joins Node to a node exactly Span
\* layers further (Span < 0: before it)
EdgesSpan(W, G, Node, Edges, Low, High) ==
    \A k \in DOMAIN Edges :
        \E i \in LayersOf(G, Node), j \in LayersOf(G, W.pins[Edges[k].To].OwningNode) :
            Low <= j - i /\ j - i <= High

\* the pairs of pins joined by an edge of some edge list of G, whatever the
\* direction of the edge
ConnectedPins(W, G) ==
    UNION {{{e.From, e.To} : e \in Range(W.nodes[n].InEdges) \cup Range(W.nodes[n].OutEdges)} : n \in Range(G.Nodes)}

\* the number of out-edges of G
OutEdgeCount(W, G) == SumSeq([i \in DOMAIN G.Nodes |-> Len(W.nodes[G.Nodes[i]].OutEdges)])

\* C1: after RemoveCycle and DoLayering every out-edge u->v of every node
\* leads to a strictly higher rank: u and v are both in the layered list and
\* (layer of v) - (layer of u) >= 1.
C1_EdgesGoDown ==
    pc = "AddDummyNodes" =>
        \A n \in Range(graph.Nodes) :
            EdgesSpan(heap, graph, n, heap.nodes[n].OutEdges, 1, Len(graph.LayeredList))

\* C1 witness: a layered graph with an edge that spans two ranks or more
C1_Witness ==
    /\ pc = "AddDummyNodes"
    /\ \E n \in Range(graph.Nodes) : \E k \in DOMAIN heap.nodes[n].OutEdges :
          EdgesSpan(heap, graph, n, <<heap.nodes[n].OutEdges[k]>>, 2, Len(graph.LayeredList))

\* C2: when RemoveCycle has returned, the graph has no directed cycle
\* (no node reaches itself along out-edges).
C2_AcyclicAfterRemoveCycle == pc = "DoLayering" => Acyclic(heap, graph)

\* C2 witness: RemoveCycle has run on a graph with overlapping cycles, two
\* edges of which it had to take out
C2_Witness ==
    /\ pc = "DoLayering"
    /\ ~Acyclic(before.W, before.G)
    /\ OutEdgeCount(before.W, before.G) - OutEdgeCount(heap, graph) >= 2

\* no edge of the graph joins two pins of one node
NoSelfLoop(W, G) ==
    \A n \in Range(G.Nodes) : \A k \in DOMAIN W.nodes[n].OutEdges :
        W.pins[W.nodes[n].OutEdges[k].To].OwningNode # n

\* C3: cycle removal loses no connection: on a graph without self-loops, the
\* pairs of pins joined by an edge are the same after RemoveCycle as before
\* it, up to the direction of the edge (an edge of a median node is
\* inverted, not dropped).
C3_NoConnectionLost ==
    (pc = "DoLayering" /\ NoSelfLoop(before.W, before.G)) =>
        ConnectedPins(heap, graph) = ConnectedPins(before.W, before.G)

\* the edges of an edge list of Node that join two pins of Node
SelfLoops(W, Node, Edges) == SelectSeq(Edges, LAMBDA e : W.pins[e.To].OwningNode = Node)

\* C12: cycle removal takes no self-loop: every node has the same self-loops
\* in its out-edge list and in its in-edge list after RemoveCycle as before
\* it.
C12_SelfLoopsKept ==
    pc = "DoLayering" =>
        \A n \in Range(graph.Nodes) :
            /\ SelfLoops(heap, n, heap.nodes[n].OutEdges) = SelfLoops(before.W, n, before.W.nodes[n].OutEdges)
            /\ SelfLoops(heap, n, heap.nodes[n].InEdges) = SelfLoops(before.W, n, before.W.nodes[n].InEdges)

\* the graph is one simple directed cycle of two nodes or more: every node
\* has one out-edge and one in-edge, none of them a self-loop, and every node
\* is reached from every node
IsSimpleCycle(W, G) ==
    /\ Len(G.Nodes) >= 2
    /\ NoSelfLoop(W, G)
    /\ \A n \in Range(G.Nodes) : Len(W.nodes[n].OutEdges) = 1 /\ Len(W.nodes[n].InEdges) = 1
    /\ \A n \in Range(G.Nodes) : Descendants(W, {n}) = Range(G.Nodes)

\* the out-edges of G before that are out-edges of the same node after
UnchangedOutEdges(W, G, WBefore) ==
    {<<n, e>> \in Range(G.Nodes) \X UNION {Range(WBefore.nodes[m].OutEdges) : m \in Range(G.Nodes)} :
        e \in Range(WBefore.nodes[n].OutEdges) /\ e \in Range(W.nodes[n].OutEdges)}

\* C13: on a graph that is one simple directed cycle of two nodes or more,
\* after RemoveCycle exactly one edge is inverted (its two pins are still
\* joined, and it is no out-edge of the node it was one of), every other
\* edge is unchanged, and no directed cycle remains.
C13_OneEdgeInverted ==
    (pc = "DoLayering" /\ IsSimpleCycle(before.W, before.G)) =>
        /\ Acyclic(heap, graph)
        /\ Cardinality(UnchangedOutEdges(heap, graph, before.W)) = Len(graph.Nodes) - 1
        /\ ConnectedPins(heap, graph) = ConnectedPins(before.W, before.G)

\* C4: after AddDummyNodes every edge of every out-edge list and of every
\* in-edge list joins two nodes of adjacent ranks.
C4_AllEdgesAdjacent ==
    pc = "DoOrderingSweep" =>
        \A n \in Range(graph.Nodes) :
            /\ EdgesSpan(heap, graph, n, heap.nodes[n].OutEdges, 1, 1)
            /\ EdgesSpan(heap, graph, n, heap.nodes[n].InEdges, -1, -1)

\* the crossing counts DoOrderingSweep has seen: of the list before the call
\* and of the order after each sweep
CrossingsSeen ==
    {CalculateCrossing(before.W, before.G.LayeredList)} \cup {CalculateCrossing(heap, aux[i]) : i \in DOMAIN aux}

\* C6: DoOrderingSweep makes MaxOrderingIterations sweeps, and the crossing
\* count of the layered list it leaves is the least of the crossing counts of
\* the list before the call and of the orders after each sweep; so it is at
\* most the crossing count before the call.
C6_BestOrderingKept ==
    pc = "DoPositioning" =>
        /\ Len(aux) = MaxOrderingIterations
        /\ CalculateCrossing(heap, graph.LayeredList) \in CrossingsSeen
        /\ \A c \in CrossingsSeen : CalculateCrossing(heap, graph.LayeredList) <= c
        /\ graph.LayeredList \in {before.G.LayeredList} \cup Range(aux)

\* C6 witness: a sweep has lowered the crossing count, and the last sweep is
\* not the order that is kept
C6_Witness ==
    /\ pc = "DoPositioning"
    /\ CalculateCrossing(heap, graph.LayeredList) < CalculateCrossing(before.W, before.G.LayeredList)
    /\ \E i \in DOMAIN aux : aux[i] # graph.LayeredList

\* C15: if the layered list has the crossing count 0 when DoOrderingSweep
\* is called, every rank has the same order of nodes after the call as
\* before it, and a second call leaves the layered list as it is.
C15_OrderingIdempotent ==
    (pc = "DoPositioning" /\ CalculateCrossing(before.W, before.G.LayeredList) = 0) =>
        /\ graph.LayeredList = before.G.LayeredList
        /\ \A R \in DoOrderingSweep(heap, graph) : R.Best = graph.LayeredList

\* C15 witness: DoOrderingSweep was called on a layered list without
\* crossings, and a sweep of the call made another order of it
C15_Witness ==
    /\ pc = "DoPositioning"
    /\ CalculateCrossing(before.W, before.G.LayeredList) = 0
    /\ \E i \in DOMAIN aux : aux[i] # before.G.LayeredList

----------------------------------------------------------------------------
(* Crossing count and sorting on graphs whose nodes have several pins      *)

\* the arrangements of a layered list: every layer in any order
RECURSIVE Arrangements(_)
Arrangements(Order) ==
    IF Order = <<>> THEN {<<>>}
    ELSE {<<[n \in DOMAIN Head(Order) |-> Head(Order)[p[n]]]>> \o Rest :
             p \in Permutations(DOMAIN Head(Order)), Rest \in Arrangements(Tail(Order))}

\* the call of RemoveCycle in Format
RemoveCycleOf(S) == [W |-> RemoveCycle(S.W, S.G), G |-> S.G]

\* the graph is built and taken through RemoveCycle, DoLayering and
\* AddDummyNodes, as Format does
InitRanked ==
    /\ \E H \in RankedHostGraphs :
          \E S \in {AddDummyNodes(DoLayering(RemoveCycleOf(BuildNodesAndEdges(EmptyHeap, H, DOMAIN H.Pins))))} :
             /\ heap = S.W
             /\ graph = S.G
             /\ before = S
    /\ pc = "DoOrderingSweep"
    /\ aux = <<>>

\* CalculateCrossing is applied to an arrangement of the layered list
StepCalculateCrossing ==
    /\ pc = "DoOrderingSweep"
    /\ \E Order \in Arrangements(graph.LayeredList) :
          aux' = [Order |-> Order, Crossing |-> CalculateCrossing(heap, Order)]
    /\ UNCHANGED <<heap, graph, pc, before>>

\* SortInLayer is applied to the layered list
StepSortInLayer ==
    /\ pc = "DoOrderingSweep"
    /\ \E Direction \in {"Input", "Output"} : \E Order \in SortInLayer(heap, graph.LayeredList, Direction) :
          /\ graph' = [graph EXCEPT !.LayeredList = Order]
          /\ aux' = [Direction |-> Direction]
    /\ before' = [W |-> heap, G |-> graph]
    /\ UNCHANGED <<heap, pc>>

NextRanked == StepCalculateCrossing \/ StepSortInLayer

SpecRanked == InitRanked /\ [][NextRanked]_vars

\* the index of an output pin among the output pins of a layer: the output
\* pins of the nodes before its node, plus its index in its node
OutPinIndexInLayer(W, Layer, Pin) ==
    LET n == CHOOSE m \in DOMAIN Layer : Layer[m] = W.pins[Pin].OwningNode
    IN SumSeq([m \in 1..(n - 1) |-> Len(W.nodes[Layer[m]].OutPins)])
       + (CHOOSE i \in DOMAIN W.nodes[Layer[n]].OutPins : W.nodes[Layer[n]].OutPins[i] = Pin) - 1

\* the same for an input pin
InPinIndexInLayer(W, Layer, Pin) ==
    LET n == CHOOSE m \in DOMAIN Layer : Layer[m] = W.pins[Pin].OwningNode
    IN SumSeq([m \in 1..(n - 1) |-> Len(W.nodes[Layer[m]].InPins)])
       + (CHOOSE i \in DOMAIN W.nodes[Layer[n]].InPins : W.nodes[Layer[n]].InPins[i] = Pin) - 1

\* the edges from Layer to NextLayer, each as <<node, index in its out-edge list>>
EdgesBetween(W, Layer, NextLayer) ==
    {<<n, k>> \in Range(Layer) \X (1..(2 * MaxLinks + 2)) :
        k <= Len(W.nodes[n].OutEdges) /\ Contains(NextLayer, W.pins[W.nodes[n].OutEdges[k].To].OwningNode)}

\* the number of unordered pairs of edges between the two layers whose
\* from-pin indices and to-pin indices are in strictly opposite order
BruteForceCrossing(W, Layer, NextLayer) ==
    LET E == EdgesBetween(W, Layer, NextLayer)
        f(e) == OutPinIndexInLayer(W, Layer, W.nodes[e[1]].OutEdges[e[2]].From)
        t(e) == InPinIndexInLayer(W, NextLayer, W.nodes[e[1]].OutEdges[e[2]].To)
    IN Cardinality({P \in SUBSET E : /\ Cardinality(P) = 2
                                     /\ \E a, b \in P : f(a) < f(b) /\ t(a) > t(b)})

\* C5: for any ordering of the ranks, CalculateCrossing is the sum, over the
\* pairs of adjacent ranks, of the brute-force number of pairs of edges
\* between them whose pin indices are in strictly opposite order.
C5_CrossingIsBruteForce ==
    (pc = "DoOrderingSweep" /\ aux # <<>> /\ "Crossing" \in DOMAIN aux) =>
        aux.Crossing = SumSeq([i \in 1..(Len(aux.Order) - 1) |->
                                  BruteForceCrossing(heap, aux.Order[i], aux.Order[i + 1])])

\* C5 witness: an ordering with two crossings or more, and nodes before the
\* ends of an edge that have several pins
C5_Witness ==
    /\ pc = "DoOrderingSweep" /\ aux # <<>> /\ "Crossing" \in DOMAIN aux
    /\ aux.Crossing >= 2
    /\ aux.Order # graph.LayeredList

----------------------------------------------------------------------------
(* A cloned graph and its mutations                                        *)

\* the pins of the nodes of G
PinsOf(W, G) == UNION {Range(W.nodes[n].InPins) \cup Range(W.nodes[n].OutPins) : n \in Range(G.Nodes)}

\* a graph is built; aux will hold the clone and the number of mutations
InitClone ==
    /\ \E H \in HostGraphs \cup RankedHostGraphs :
          \E S \in {BuildNodesAndEdges(EmptyHeap, H, DOMAIN H.Pins)} :
             /\ heap = S.W
             /\ graph = S.G
             /\ before = S
    /\ pc = "Built"
    /\ aux = <<>>

\* the copy constructor of FFormatterGraph is called on the graph
StepClone ==
    /\ pc = "Built"
    /\ \E S \in {CloneGraph(heap, graph)} :
          /\ heap' = S.W
          /\ aux' = [G |-> S.G, Count |-> 0]
    /\ pc' = "Cloned"
    /\ UNCHANGED <<graph, before>>

\* RemoveNode is called on the clone for one of its nodes
StepCloneRemoveNode ==
    /\ pc = "Cloned" /\ aux.Count < MaxMutations
    /\ \E n \in Range(aux.G.Nodes) :
          \E S \in {RemoveNode([W |-> heap, G |-> aux.G], n)} :
             /\ heap' = S.W
             /\ aux' = [G |-> S.G, Count |-> aux.Count + 1]
    /\ UNCHANGED <<graph, pc, before>>

\* Disconnect is called for two pins of the clone, on the node that owns the
\* first, as every call of the code is
StepCloneDisconnect ==
    /\ pc = "Cloned" /\ aux.Count < MaxMutations
    /\ \E SourcePin, TargetPin \in PinsOf(heap, aux.G) :
          /\ heap' = Disconnect(heap, heap.pins[SourcePin].OwningNode, SourcePin, TargetPin)
          /\ aux' = [aux EXCEPT !.Count = @ + 1]
    /\ UNCHANGED <<graph, pc, before>>

\* Connect is called for two pins of the clone, on the node that owns the
\* first, as every call of the code is
StepCloneConnect ==
    /\ pc = "Cloned" /\ aux.Count < MaxMutations
    /\ \E SourcePin, TargetPin \in PinsOf(heap, aux.G) :
          /\ heap' = Connect(heap, heap.pins[SourcePin].OwningNode, SourcePin, TargetPin)
          /\ aux' = [aux EXCEPT !.Count = @ + 1]
    /\ UNCHANGED <<graph, pc, before>>

NextClone == StepClone \/ StepCloneRemoveNode \/ StepCloneDisconnect \/ StepCloneConnect

SpecClone == InitClone /\ [][NextClone]_vars

\* the pins the edge lists of the nodes of G refer to
EdgePinsOf(W, G) ==
    UNION {UNION {{e.From, e.To} : e \in Range(W.nodes[n].InEdges) \cup Range(W.nodes[n].OutEdges)} : n \in Range(G.Nodes)}

\* C10: once the graph is cloned, whatever RemoveNode, Disconnect and Connect
\* do on the clone, the original keeps its node list and id maps, its nodes
\* keep their pin lists and edge lists, its pins keep their fields; and the
\* clone has no node or pin of the original, in its node list, its pin
\* lists, its maps or its edges.
C10_CloneIsIndependent ==
    pc = "Cloned" =>
        /\ graph = before.G
        /\ \A n \in Range(graph.Nodes) : n \in DOMAIN heap.nodes /\ heap.nodes[n] = before.W.nodes[n]
        /\ \A q \in PinsOf(before.W, before.G) : q \in DOMAIN heap.pins /\ heap.pins[q] = before.W.pins[q]
        /\ Range(aux.G.Nodes) \cap Range(graph.Nodes) = {}
        /\ {aux.G.NodesMap[k] : k \in DOMAIN aux.G.NodesMap} \cap Range(graph.Nodes) = {}
        /\ (PinsOf(heap, aux.G) \cup EdgePinsOf(heap, aux.G)
               \cup {aux.G.PinsMap[k] : k \in DOMAIN aux.G.PinsMap}
               \cup {aux.G.OriginalPinsMap[k] : k \in DOMAIN aux.G.OriginalPinsMap})
              \cap PinsOf(before.W, before.G) = {}

\* the guids of the pins of a pin list
PinGuids(W, Pins) == [i \in DOMAIN Pins |-> W.pins[Pins[i]].Guid]

\* the directions of the pins of a pin list
PinDirections(W, Pins) == [i \in DOMAIN Pins |-> W.pins[Pins[i]].Direction]

\* the pairs of pin guids that the edges of an edge list join
EdgeGuids(W, Edges) == [i \in DOMAIN Edges |-> <<W.pins[Edges[i].From].Guid, W.pins[Edges[i].To].Guid>>]

\* C11: the clone has the node guids and the pin guids of the original; the
\* clone of a node has pins of the same guids and directions in the same
\* order, each owned by the clone; and its in-edge and out-edge lists join
\* the same pairs of pin guids in the same order as those of the original.
C11_CloneKeepsIds ==
    (pc = "Cloned" /\ aux.Count = 0) =>
        /\ {heap.nodes[n].Guid : n \in Range(aux.G.Nodes)} = {heap.nodes[n].Guid : n \in Range(graph.Nodes)}
        /\ {heap.pins[q].Guid : q \in PinsOf(heap, aux.G)} = {heap.pins[q].Guid : q \in PinsOf(heap, graph)}
        /\ \A n \in Range(graph.Nodes) :
              LET o == heap.nodes[n]
                  c == heap.nodes[aux.G.NodesMap[o.Guid]]
              IN /\ aux.G.NodesMap[o.Guid] \in Range(aux.G.Nodes)
                 /\ c.Guid = o.Guid
                 /\ PinGuids(heap, c.InPins) = PinGuids(heap, o.InPins)
                 /\ PinGuids(heap, c.OutPins) = PinGuids(heap, o.OutPins)
                 /\ PinDirections(heap, c.InPins) = PinDirections(heap, o.InPins)
                 /\ PinDirections(heap, c.OutPins) = PinDirections(heap, o.OutPins)
                 /\ \A q \in Range(c.InPins) \cup Range(c.OutPins) : heap.pins[q].OwningNode = aux.G.NodesMap[o.Guid]
                 /\ EdgeGuids(heap, c.InEdges) = EdgeGuids(heap, o.InEdges)
                 /\ EdgeGuids(heap, c.OutEdges) = EdgeGuids(heap, o.OutEdges)

\* C11 witness: a graph of three nodes or more is cloned, one of whose
\* nodes has two out-edges or more and one two in-edges or more
C11_Witness ==
    /\ pc = "Cloned" /\ aux.Count = 0
    /\ Len(graph.Nodes) >= 3
    /\ \E n, m \in Range(aux.G.Nodes) : Len(heap.nodes[n].OutEdges) >= 2 /\ Len(heap.nodes[m].InEdges) >= 2

\* the number of places of the list Edges that hold Edge
CountEdge(Edges, Edge) == Cardinality({i \in DOMAIN Edges : Edges[i] = Edge})

\* every edge of a node of G is held as often by the node at its far end, the
\* state Connect and Disconnect leave when called for both ends
TwoSided(W, G) ==
    \A m \in Range(G.Nodes) :
        \A i \in DOMAIN (W.nodes[m].InEdges \o W.nodes[m].OutEdges) :
            LET Edge == (W.nodes[m].InEdges \o W.nodes[m].OutEdges)[i]
                Far == W.nodes[W.pins[Edge.To].OwningNode]
            IN CountEdge(W.nodes[m].InEdges \o W.nodes[m].OutEdges, Edge)
                   = CountEdge(Far.InEdges \o Far.OutEdges, [From |-> Edge.To, To |-> Edge.From])

\* the edges of the list Edges whose other end is none of Pins, in their order
EdgesAvoiding(Edges, Pins) == SelectSeq(Edges, LAMBDA Edge : Edge.To \notin Pins)

\* what a call RemoveNode(n) that goes from (W, G) to (W2, G2) has done
Cascaded(W, G, n, W2, G2) ==
    LET Pins == Range(W.nodes[n].InPins) \cup Range(W.nodes[n].OutPins)
    IN /\ n \notin Range(G2.Nodes)
       /\ Range(G2.Nodes) = Range(G.Nodes) \ {n}
       /\ W.nodes[n].Guid \notin DOMAIN G2.NodesMap
       /\ \A Pin \in Pins : W.pins[Pin].Guid \notin DOMAIN G2.PinsMap
       /\ \A m \in Range(G2.Nodes) :
             /\ \A i \in DOMAIN W2.nodes[m].InEdges : W2.nodes[m].InEdges[i].To \notin Pins
             /\ \A i \in DOMAIN W2.nodes[m].OutEdges : W2.nodes[m].OutEdges[i].To \notin Pins
             /\ W2.nodes[m].InEdges = EdgesAvoiding(W.nodes[m].InEdges, Pins)
             /\ W2.nodes[m].OutEdges = EdgesAvoiding(W.nodes[m].OutEdges, Pins)

\* C16: RemoveNode(n), called on a graph whose edges are held at both ends,
\* takes n out of the node list and the id maps of the graph, leaves no
\* remaining node an in-edge or out-edge whose other end is a pin of n, and
\* leaves every edge between two remaining nodes as it was.
C16_RemoveNodeCascades ==
    [][(pc = "Cloned" /\ pc' = "Cloned" /\ Len(aux'.G.Nodes) < Len(aux.G.Nodes) /\ TwoSided(heap, aux.G)) =>
          \E n \in Range(aux.G.Nodes) \ Range(aux'.G.Nodes) : Cascaded(heap, aux.G, n, heap', aux'.G)]_vars

\* C16 witness: RemoveNode was the one call made on the clone of a graph of
\* three nodes, for a node that had an in-edge and an out-edge, and an edge
\* between the two remaining nodes is left
C16_Witness ==
    /\ pc = "Cloned" /\ aux.Count = 1
    /\ Len(graph.Nodes) = 3 /\ Len(aux.G.Nodes) = 2
    /\ \E o \in Range(graph.Nodes) :
          /\ heap.nodes[o].Guid \notin DOMAIN aux.G.NodesMap
          /\ Len(heap.nodes[o].InEdges) > 0 /\ Len(heap.nodes[o].OutEdges) > 0
    /\ \E m \in Range(aux.G.Nodes) : Len(heap.nodes[m].OutEdges) > 0
    /\ TwoSided(heap, aux.G)

\* C10 witness: the clone has lost a node that had edges, after two
\* mutations, while the original has edges
C10_Witness ==
    /\ pc = "Cloned" /\ aux.Count = MaxMutations
    /\ Len(aux.G.Nodes) < Len(graph.Nodes)
    /\ OutEdgeCount(heap, aux.G) < OutEdgeCount(heap, graph)

----------------------------------------------------------------------------
(* Isolated graphs of a selection with comment nodes                       *)

\* the relations Under of n host nodes that rectangles give: a comment node
\* is not under itself, and what is under a comment node under c is under c
UnderRelations(n, Comments) ==
    {U \in [1..n -> SUBSET (1..n)] :
        /\ \A u \in 1..n : (u \notin Comments => U[u] = {}) /\ u \notin U[u]
        /\ \A c \in Comments : \A d \in U[c] : U[d] \subseteq U[c]}

\* the host graphs of up to MaxNodes nodes, each a comment node without pins
\* or a node with one input and one output pin, with up to MaxLinks links
CommentHostGraphs ==
    UNION {UNION {LET Counts == [u \in 1..n |-> IF u \in C THEN [In |-> 0, Out |-> 0] ELSE [In |-> 1, Out |-> 1]]
                  IN {[HostGraphOf(Counts, L) EXCEPT !.Comments = C, !.Under = U, !.CommentOrder = O] :
                         L \in SubsetsUpTo(LinksBetween(Counts, 1..n, 1..n), MaxLinks),
                         U \in UnderRelations(n, C),
                         O \in {o \in [1..Cardinality(C) -> C] : Range(o) = C}} :
                  C \in SUBSET (1..n)} : n \in 1..MaxNodes}

\* a host graph and a selection of its nodes are given
InitIsolated ==
    /\ \E H \in CommentHostGraphs : \E SelectedNodes \in SUBSET DOMAIN H.Pins :
          before = [H |-> H, SelectedNodes |-> SelectedNodes]
    /\ heap = EmptyHeap
    /\ graph = EmptyGraph
    /\ pc = "FindIsolated"
    /\ aux = <<>>

\* FindIsolated is called on the selection
StepFindIsolated ==
    /\ pc = "FindIsolated"
    /\ \E Found \in {FindIsolated(heap, before.H, before.SelectedNodes)} :
          /\ heap' = Found.W
          /\ aux' = Found.Result
    /\ pc' = "Found"
    /\ UNCHANGED <<graph, before>>

\* the graph of the selection is constructed
StepNewGraph ==
    /\ pc = "Found"
    /\ \E S \in {NewGraph(heap, before.H, before.SelectedNodes, FALSE)} :
          /\ heap' = S.W
          /\ graph' = S.G
    /\ pc' = "Built"
    /\ UNCHANGED <<aux, before>>

NextIsolated == StepFindIsolated \/ StepNewGraph

SpecIsolated == InitIsolated /\ [][NextIsolated]_vars

\* the pairs of selected host nodes a link joins
LinkedPairs(H, SelectedNodes) ==
    {P \in {{OwningUENode(H, l[1]), OwningUENode(H, l[2])} : l \in H.Links} : P \subseteq SelectedNodes}

\* the pairs of a comment node that FindIsolated collapses and a node of its
\* subgraph
CollapsedPairs(H, SelectedNodes) ==
    LET Temp == NewGraph(EmptyHeap, H, SelectedNodes, TRUE)
    IN UNION {IF Temp.W.nodes[n].SubGraph = <<>> THEN {}
              ELSE {{Temp.W.nodes[n].OriginalNode, x} : x \in Range(GetOriginalNodes(Temp.W, Temp.W.nodes[n].SubGraph[1]))} :
              n \in Range(Temp.G.Nodes)}

RECURSIVE JoinedTo(_, _)
\* the nodes a path of pairs of Pairs joins to a node of Seen
JoinedTo(Pairs, Seen) ==
    LET More == Seen \cup UNION {P \in Pairs : P \cap Seen # {}}
    IN IF More = Seen THEN Seen ELSE JoinedTo(Pairs, More)

\* Result is a partition of SelectedNodes whose sets are the classes of the
\* nodes that paths of Pairs join
IsPartitionBy(Result, SelectedNodes, Pairs) ==
    /\ \A i \in DOMAIN Result : Result[i] # {}
    /\ \A i, j \in DOMAIN Result : i # j => Result[i] \cap Result[j] = {}
    /\ UNION Range(Result) = SelectedNodes
    /\ \A x, y \in SelectedNodes : (\E i \in DOMAIN Result : {x, y} \subseteq Result[i]) <=> y \in JoinedTo(Pairs, {x})

\* C8 as stated: FindIsolated returns a partition of the selected nodes into
\* non-empty, pairwise disjoint sets that contain every selected node, and
\* two nodes are in one set iff a path of links, whatever their direction,
\* joins them.
C8_PartitionByLinks ==
    pc = "Found" => IsPartitionBy(aux, before.SelectedNodes, LinkedPairs(before.H, before.SelectedNodes))

\* C8 amended: FindIsolated returns a partition of the selected nodes into
\* non-empty, pairwise disjoint sets that contain every selected node, and
\* two nodes are in one set iff a path joins them whose steps are links,
\* whatever their direction, or pairs of a collapsed comment node and a node
\* it holds.
C8_PartitionByLinksAndComments ==
    pc = "Found" =>
        IsPartitionBy(aux, before.SelectedNodes,
                      LinkedPairs(before.H, before.SelectedNodes) \cup CollapsedPairs(before.H, before.SelectedNodes))

\* C8 witness: a set found has a comment node and two nodes under it that
\* no path of links joins
C8_Witness ==
    /\ pc = "Found"
    /\ \E i \in DOMAIN aux : \E c \in aux[i] \cap before.H.Comments : \E x, y \in before.H.Under[c] \cap aux[i] :
          y \notin JoinedTo(LinkedPairs(before.H, before.SelectedNodes), {x})

----------------------------------------------------------------------------
(* Format of a graph with isolated graphs                                  *)
(* A rectangle (FSlateRect) is a record [Left, Top, Right, Bottom]; a node *)
(* is here its Position and Size, a graph its set of nodes, its isolated   *)
(* graphs and its TotalBound.                                              *)

\* FSlateRect(): the default rectangle
DefaultRect == [Left |-> -1, Top |-> -1, Right |-> -1, Bottom |-> -1]

\* FSlateRect::IsValid
IsValid(R) ==
    /\ ~(R.Left = -1 /\ R.Right = -1 /\ R.Bottom = -1 /\ R.Top = -1)
    /\ R.Right >= R.Left /\ R.Bottom >= R.Top

\* FSlateRect::Expand
Expand(R, Q) ==
    [Left |-> IF R.Left < Q.Left THEN R.Left ELSE Q.Left, Top |-> IF R.Top < Q.Top THEN R.Top ELSE Q.Top,
     Right |-> IF R.Right > Q.Right THEN R.Right ELSE Q.Right, Bottom |-> IF R.Bottom > Q.Bottom THEN R.Bottom ELSE Q.Bottom]

\* FSlateRect::OffsetBy
RectOffsetBy(R, Offset) ==
    [Left |-> R.Left + Offset[1], Top |-> R.Top + Offset[2], Right |-> R.Right + Offset[1], Bottom |-> R.Bottom + Offset[2]]

\* FSlateRect::FromPointAndExtent
FromPointAndExtent(Position, Size) ==
    [Left |-> Position[1], Top |-> Position[2], Right |-> Position[1] + Size[1], Bottom |-> Position[2] + Size[2]]

RECURSIVE BoundOfNodes(_, _)
\* the loop that a positioning strategy ends with: Bound grows by the
\* rectangle of every node of Nodes
BoundOfNodes(Nodes, Bound) ==
    IF Nodes = {} THEN Bound
    ELSE LET Node == CHOOSE n \in Nodes : TRUE
             Rect == FromPointAndExtent(Node.Position, Node.Size)
         IN BoundOfNodes(Nodes \ {Node}, IF IsValid(Bound) THEN Expand(Bound, Rect) ELSE Rect)

\* the nodes a positioning strategy can leave: up to MaxRects nodes with
\* coordinates of absolute value up to MaxCoord and sizes from 1 to MaxSize
Layouts ==
    SubsetsUpTo([Position : (0..MaxCoord) \X ((-MaxCoord)..MaxCoord), Size : {<<z, z>> : z \in 1..MaxSize},
                 SubGraph : {<<>>}], MaxRects) \ {{}}

RECURSIVE OffsetBy(_, _)
RECURSIVE NodeSetPosition(_, _)

\* FFormatterNode::SetPosition without the move of the subgraph
NodeSetPositionOnly(Node, InPosition) == [Node EXCEPT !.Position = InPosition]

\* FFormatterNode::SetPosition: the field SubGraph of a node is <<>> for
\* nullptr and <<the graph>> otherwise
NodeSetPosition(Node, InPosition) ==
    [Node EXCEPT !.Position = InPosition,
                 !.SubGraph = IF @ = <<>> THEN <<>>
                              ELSE <<OffsetBy(@[1], <<InPosition[1] - Node.Position[1], InPosition[2] - Node.Position[2]>>)>>]

\* FFormatterGraph::OffsetBy
OffsetBy(G, InOffset) ==
    [Nodes |-> IF Len(G.IsolatedGraphs) > 0 THEN G.Nodes
               ELSE {NodeSetPosition(n, <<n.Position[1] + InOffset[1], n.Position[2] + InOffset[2]>>) : n \in G.Nodes},
     IsolatedGraphs |-> [i \in DOMAIN G.IsolatedGraphs |-> OffsetBy(G.IsolatedGraphs[i], InOffset)],
     TotalBound |-> RectOffsetBy(G.TotalBound, InOffset)]

\* SetPosition that takes Position for the offset
SetPositionAsOffset(G, Position) == OffsetBy(G, Position)

\* FFormatterGraph::SetPosition
SetPosition(G, Position) == OffsetBy(G, <<Position[1] - G.TotalBound.Left, Position[2] - G.TotalBound.Top>>)

\* a graph with two isolated graphs or more is constructed; aux has the
\* local PreBound of Format, the index of its loop, the setting
\* VerticalSpacing and, for the properties, the nodes of each isolated graph
\* as its own Format left them
InitFormat ==
    /\ \E n \in 2..MaxComponents :
          graph = [Nodes |-> {}, TotalBound |-> DefaultRect,
                   IsolatedGraphs |-> [i \in 1..n |-> [Nodes |-> {}, IsolatedGraphs |-> <<>>, TotalBound |-> DefaultRect]]]
    /\ \E v \in 0..MaxSpacing : aux = [PreBound |-> DefaultRect, i |-> 1, VerticalSpacing |-> v, Laid |-> <<>>]
    /\ heap = EmptyHeap
    /\ before = <<>>
    /\ pc = "Format"

\* one turn of the loop of Format over the isolated graphs: the isolated
\* graph is formatted, which leaves its nodes placed and its TotalBound
\* their bound, is moved if PreBound is valid, and joins TotalBound
StepFormatIsolated ==
    /\ pc = "Format"
    /\ \E Nodes \in Layouts :
          LET Formatted == [Nodes |-> Nodes, IsolatedGraphs |-> <<>>, TotalBound |-> BoundOfNodes(Nodes, DefaultRect)]
              Placed == IF IsValid(aux.PreBound)
                        THEN SetPosition(Formatted, <<aux.PreBound.Left, aux.PreBound.Bottom>>)
                        ELSE Formatted
              Bound == Placed.TotalBound
              Total == IF IsValid(graph.TotalBound) THEN Expand(graph.TotalBound, Bound) ELSE Bound
          IN /\ graph' = [graph EXCEPT !.IsolatedGraphs[aux.i] = Placed, !.TotalBound = Total]
             /\ aux' = [aux EXCEPT !.PreBound = RectOffsetBy(Total, <<0, aux.VerticalSpacing>>),
                                   !.i = @ + 1, !.Laid = Append(@, Nodes)]
             /\ pc' = IF aux.i = Len(graph.IsolatedGraphs) THEN "Done" ELSE "Format"
    /\ UNCHANGED <<heap, before>>

NextFormat == StepFormatIsolated

SpecFormat == InitFormat /\ [][NextFormat]_vars

\* the rectangles of the nodes of isolated graph k
RectsOf(k) == {FromPointAndExtent(n.Position, n.Size) : n \in graph.IsolatedGraphs[k].Nodes}

\* two rectangles have a point in common that is on the border of neither
Overlap(R, Q) == R.Left < Q.Right /\ Q.Left < R.Right /\ R.Top < Q.Bottom /\ Q.Top < R.Bottom

\* the least rectangle with the nodes of isolated graph k
Hull(k) ==
    LET Rs == RectsOf(k)
    IN [Left |-> (CHOOSE r \in Rs : \A q \in Rs : r.Left <= q.Left).Left,
        Top |-> (CHOOSE r \in Rs : \A q \in Rs : r.Top <= q.Top).Top,
        Right |-> (CHOOSE r \in Rs : \A q \in Rs : r.Right >= q.Right).Right,
        Bottom |-> (CHOOSE r \in Rs : \A q \in Rs : r.Bottom >= q.Bottom).Bottom]

----------------------------------------------------------------------------
(* FFastAndSimplePositioningStrategy                                       *)
(* The strategy object is a record T with the fields of the class and the  *)
(* data of the nodes it reads: Size[n] is Size.Y of node n, NodeOffset[p]  *)
(* NodeOffset.Y of pin p and Position[n] Position.Y of node n.  A length   *)
(* is a whole number of 1/Unit, so that the quotients the code takes are   *)
(* exact.  PosMap counts from 0 as in the code; a key that XMap does not   *)
(* have stands for the value NAN.                                          *)

RECURSIVE Factorial(_)
Factorial(n) == IF n <= 1 THEN 1 ELSE n * Factorial(n - 1)

\* a length is divided by the number of the edges that join two nodes and
\* then by two
Unit == 2 * Factorial(MaxLinks)

FLT_MAX == 1000000000

INT_MAX == 2147483647

\* FFormatterNode::GetUppers: the nodes at the far end of the in-edges, each
\* one time, in the order of the edges
GetUppers(W, Node) == AppendNew(<<>>, GetPredecessors(W, Node))

\* FFormatterNode::GetLowers: the same for the out-edges
GetLowers(W, Node) == AppendNew(<<>>, GetSuccessors(W, Node))

\* FFormatterNode::GetMedianUpper
GetMedianUpper(W, Node) ==
    LET UpperNodes == GetUppers(W, Node)
    IN IF Len(UpperNodes) > 0 THEN UpperNodes[Len(UpperNodes) \div 2 + 1] ELSE NULL

\* FFormatterEdge::IsInnerSegment: the edge joins two dummy nodes
IsInnerSegment(W, Edge) ==
    /\ W.nodes[W.pins[Edge.From].OwningNode].OriginalNode = NULL
    /\ W.nodes[W.pins[Edge.To].OwningNode].OriginalNode = NULL

\* FFormatterNode::IsCrossingInnerSegment: an in-edge of Node to UpperLayer
\* crosses an inner segment between the two layers
IsCrossingInnerSegment(W, Node, LowerLayer, UpperLayer) ==
    LET StartIndex == SumSeq([k \in 1..(IndexOf(LowerLayer, Node) - 1) |-> GetInputPinCount(W, LowerLayer[k])])
        EdgesLinkedToUpper == GetEdgeLinkedToLayer(W, Node, UpperLayer, StartIndex, "Input")
        EdgesBetweenTwoLayers == GetEdgeBetweenTwoLayer(W, LowerLayer, UpperLayer, "Input")
    IN \E a \in DOMAIN EdgesLinkedToUpper, b \in DOMAIN EdgesBetweenTwoLayers :
          /\ IsInnerSegment(W, EdgesBetweenTwoLayers[b])
          /\ IsCrossing(EdgesLinkedToUpper[a], EdgesBetweenTwoLayers[b])

\* FFormatterNode::GetLinkedPositionToNode: the mean of NodeOffset.Y of the
\* pins of Node that an edge of the direction joins to Other, 0 without one
GetLinkedPositionToNode(W, NodeOffset, Node, Other, Direction) ==
    LET All == IF Direction = "Input" THEN W.nodes[Node].InEdges ELSE W.nodes[Node].OutEdges
        Edges == SelectSeq(All, LAMBDA e : W.pins[e.To].OwningNode = Other)
    IN IF Len(Edges) = 0 THEN 0
       ELSE SumSeq([k \in DOMAIN Edges |-> NodeOffset[Edges[k].From]]) \div Len(Edges)

\* the strategy object the constructor starts from
NewStrategy(LayeredNodes, Size, NodeOffset, Position, VerticalSpacing, PositioningAlgorithm) ==
    [LayeredNodes |-> LayeredNodes, Size |-> Size, NodeOffset |-> NodeOffset, Position |-> Position,
     VerticalSpacing |-> VerticalSpacing, PositioningAlgorithm |-> PositioningAlgorithm,
     OldPosition |-> Position[LayeredNodes[1][1]],
     IsUpperDirection |-> TRUE, IsLeftDirection |-> TRUE,
     PosMap |-> EmptyMap, PredecessorMap |-> EmptyMap, SuccessorMap |-> EmptyMap, ConflictMarks |-> EmptyMap,
     RootMap |-> EmptyMap, AlignMap |-> EmptyMap, InnerShiftMap |-> EmptyMap,
     SinkMap |-> EmptyMap, ShiftMap |-> EmptyMap, XMap |-> EmptyMap,
     UpperLeftPositionMap |-> EmptyMap, UpperRightPositionMap |-> EmptyMap,
     LowerLeftPositionMap |-> EmptyMap, LowerRightPositionMap |-> EmptyMap, CombinedPositionMap |-> EmptyMap]

\* the nodes of the layers, layer after layer: the order of the loops over
\* LayeredNodes
LayeredSeq(T) == Flatten(T.LayeredNodes)

RECURSIVE MarkUpperNodes(_, _, _, _, _, _, _)
\* the for loop of MarkConflicts over UpperNodes from index m
MarkUpperNodes(T, Marks, Node, UpperNodes, k0, k1, m) ==
    IF m > Len(UpperNodes) THEN Marks
    ELSE LET k == T.PosMap[UpperNodes[m]]
         IN MarkUpperNodes(T, IF k < k0 \/ k > k1 THEN MapPut(Marks, UpperNodes[m], Node) ELSE Marks,
                           Node, UpperNodes, k0, k1, m + 1)

RECURSIVE MarkWhile(_, _, _, _, _, _, _, _)
\* the while loop of MarkConflicts: the marks and l it ends with
MarkWhile(W, T, Marks, Node, k0, k1, l, l1) ==
    IF ~(l < l1) THEN [Marks |-> Marks, l |-> l]
    ELSE MarkWhile(W, T, MarkUpperNodes(T, Marks, Node, GetUppers(W, Node), k0, k1, 1), Node, k0, k1, l + 1, l1)

RECURSIVE MarkLayer(_, _, _, _, _, _, _)
\* the loop of MarkConflicts over l1 for the layers i and i + 1 (from 0)
MarkLayer(W, T, Marks, i, l1, k0, l) ==
    LET Lower == T.LayeredNodes[i + 2]
        Upper == T.LayeredNodes[i + 1]
    IN IF ~(l1 < Len(Lower)) THEN Marks
       ELSE LET Node == Lower[l1 + 1]
                Crossing == IsCrossingInnerSegment(W, Node, Lower, Upper)
            IN IF l1 = Len(Lower) - 1 \/ Crossing
               THEN LET k1 == IF Crossing THEN T.PosMap[GetMedianUpper(W, Node)] ELSE Len(Upper)
                        R == MarkWhile(W, T, Marks, Node, k0, k1, l, l1)
                    IN MarkLayer(W, T, R.Marks, i, l1 + 1, k1, R.l)
               ELSE MarkLayer(W, T, Marks, i, l1 + 1, k0, l)

RECURSIVE MarkLayers(_, _, _, _)
\* the outer loop of MarkConflicts from i
MarkLayers(W, T, Marks, i) ==
    IF ~(i < Len(T.LayeredNodes) - 1) THEN Marks
    ELSE MarkLayers(W, T, MarkLayer(W, T, Marks, i, 0, 0, 1), i + 1)

\* FFastAndSimplePositioningStrategy::MarkConflicts
MarkConflicts(W, T) == [T EXCEPT !.ConflictMarks = MarkLayers(W, T, T.ConflictMarks, 1)]

\* FFastAndSimplePositioningStrategy::Initialize
Initialize(W, T) ==
    LET L == T.LayeredNodes
        Nodes == Range(LayeredSeq(T))
        LayerOf(n) == L[CHOOSE i \in DOMAIN L : Contains(L[i], n)]
        T1 == [T EXCEPT !.PosMap = [n \in Nodes |-> IndexOf(LayerOf(n), n) - 1],
                        !.PredecessorMap = [n \in Nodes |->
                            IF IndexOf(LayerOf(n), n) # 1 THEN LayerOf(n)[IndexOf(LayerOf(n), n) - 1] ELSE NULL],
                        !.SuccessorMap = [n \in Nodes |->
                            IF IndexOf(LayerOf(n), n) # Len(LayerOf(n)) THEN LayerOf(n)[IndexOf(LayerOf(n), n) + 1] ELSE NULL]]
    IN MarkConflicts(W, T1)

RECURSIVE AlignMediansAnyGuide(_, _, _, _, _, _)
\* AlignMedians without the test of the guide position
AlignMediansAnyGuide(T, A, Node, Adjacencies, m, mb) ==
    IF ~(m <= mb) THEN A
    ELSE LET MedianNode == Adjacencies[m + 1]
             IsMarked == MedianNode \in DOMAIN T.ConflictMarks /\ T.ConflictMarks[MedianNode] = Node
             A1 == IF A.AlignMap[Node] = Node /\ ~IsMarked
                   THEN LET Root == A.RootMap[MedianNode]
                        IN [RootMap |-> [A.RootMap EXCEPT ![Node] = Root],
                            AlignMap |-> [A.AlignMap EXCEPT ![MedianNode] = Node, ![Node] = Root],
                            Guide |-> T.PosMap[MedianNode]]
                   ELSE A
         IN AlignMediansAnyGuide(T, A1, Node, Adjacencies, m + 1, mb)

RECURSIVE AlignMedians(_, _, _, _, _, _)
\* the loop of DoVerticalAlignment over the medians m..mb (from 0) of
\* Adjacencies; A is [RootMap, AlignMap, Guide]
AlignMedians(T, A, Node, Adjacencies, m, mb) ==
    IF ~(m <= mb) THEN A
    ELSE LET MedianNode == Adjacencies[m + 1]
             IsMarked == MedianNode \in DOMAIN T.ConflictMarks /\ T.ConflictMarks[MedianNode] = Node
             MedianNodePos == T.PosMap[MedianNode]
             IsGuideAccepted == IF T.IsLeftDirection THEN MedianNodePos > A.Guide ELSE MedianNodePos < A.Guide
             A1 == IF A.AlignMap[Node] = Node /\ ~IsMarked /\ IsGuideAccepted
                   THEN LET Root == A.RootMap[MedianNode]
                        IN [RootMap |-> [A.RootMap EXCEPT ![Node] = Root],
                            AlignMap |-> [A.AlignMap EXCEPT ![MedianNode] = Node, ![Node] = Root],
                            Guide |-> MedianNodePos]
                   ELSE A
         IN AlignMedians(T, A1, Node, Adjacencies, m + 1, mb)

RECURSIVE AlignLayer(_, _, _, _, _)
\* the loop of DoVerticalAlignment over the nodes of layer i from index k
\* (both from 0).  TruncToInt((n + 1) / 2.0f - 1) is (n - 1) div 2 and
\* CeilToInt((n + 1) / 2.0f - 1) is n div 2 for n > 0.
AlignLayer(W, T, A, i, k) ==
    LET Layer == T.LayeredNodes[i + 1]
        Step == IF T.IsLeftDirection THEN 1 ELSE -1
        End == IF T.IsLeftDirection THEN Len(Layer) ELSE -1
    IN IF k = End THEN A
       ELSE LET Node == Layer[k + 1]
                Adjacencies == IF T.IsUpperDirection THEN GetUppers(W, Node) ELSE GetLowers(W, Node)
                ma == (Len(Adjacencies) - 1) \div 2
                mb == Len(Adjacencies) \div 2
            IN AlignLayer(W, T, IF Len(Adjacencies) > 0 THEN AlignMedians(T, A, Node, Adjacencies, ma, mb) ELSE A,
                          i, k + Step)

RECURSIVE AlignLayers(_, _, _, _)
\* the loop of DoVerticalAlignment over the layers from layer i (from 0)
AlignLayers(W, T, A, i) ==
    LET LayerStep == IF T.IsUpperDirection THEN 1 ELSE -1
        LayerEnd == IF T.IsUpperDirection THEN Len(T.LayeredNodes) ELSE -1
    IN IF i = LayerEnd THEN A
       ELSE LET Guide == IF T.IsLeftDirection THEN -1 ELSE INT_MAX
                Start == IF T.IsLeftDirection THEN 0 ELSE Len(T.LayeredNodes[i + 1]) - 1
            IN AlignLayers(W, T, AlignLayer(W, T, [A EXCEPT !.Guide = Guide], i, Start), i + LayerStep)

\* FFastAndSimplePositioningStrategy::DoVerticalAlignment
DoVerticalAlignment(W, T) ==
    LET Nodes == Range(LayeredSeq(T))
        Self == [n \in Nodes |-> n]
        LayerStart == IF T.IsUpperDirection THEN 0 ELSE Len(T.LayeredNodes) - 1
        A == AlignLayers(W, T, [RootMap |-> Self, AlignMap |-> Self, Guide |-> 0], LayerStart)
    IN [T EXCEPT !.RootMap = A.RootMap, !.AlignMap = A.AlignMap]

RECURSIVE InnerShiftChain(_, _, _, _, _, _)
\* the while (true) loop of CalculateInnerShift for the block of RootNode;
\* B is [InnerShiftMap, Left, Right]
InnerShiftChain(W, T, B, RootNode, UpperNode, LowerNode) ==
    LET UpperPosition == GetLinkedPositionToNode(W, T.NodeOffset, UpperNode, LowerNode,
                                                 IF T.IsUpperDirection THEN "Output" ELSE "Input")
        LowerPosition == GetLinkedPositionToNode(W, T.NodeOffset, LowerNode, UpperNode,
                                                 IF T.IsUpperDirection THEN "Input" ELSE "Output")
        Shift == B.InnerShiftMap[UpperNode] + UpperPosition - LowerPosition
        B1 == [InnerShiftMap |-> MapPut(B.InnerShiftMap, LowerNode, Shift),
               Left |-> IF B.Left < Shift THEN B.Left ELSE Shift,
               Right |-> IF B.Right > Shift + T.Size[LowerNode] THEN B.Right ELSE Shift + T.Size[LowerNode]]
    IN IF T.AlignMap[LowerNode] = RootNode THEN B1
       ELSE InnerShiftChain(W, T, B1, RootNode, LowerNode, T.AlignMap[LowerNode])

RECURSIVE BlockOf(_, _, _)
\* the nodes that a do-while loop from CheckNode along AlignMap visits until
\* it comes to Node
BlockOf(T, Node, CheckNode) ==
    {CheckNode} \cup (IF T.AlignMap[CheckNode] = Node THEN {} ELSE BlockOf(T, Node, T.AlignMap[CheckNode]))

RECURSIVE InnerShiftLoop(_, _, _, _)
\* the loops of CalculateInnerShift over the nodes from index k of Nodes
InnerShiftLoop(W, T, InnerShiftMap, k) ==
    LET Nodes == LayeredSeq(T)
    IN IF k > Len(Nodes) THEN InnerShiftMap
       ELSE LET Node == Nodes[k]
            IN IF T.RootMap[Node] # Node THEN InnerShiftLoop(W, T, InnerShiftMap, k + 1)
               ELSE LET B == InnerShiftChain(W, T, [InnerShiftMap |-> MapPut(InnerShiftMap, Node, 0),
                                                    Left |-> 0, Right |-> T.Size[Node]],
                                             Node, Node, T.AlignMap[Node])
                        Block == BlockOf(T, Node, Node)
                    IN InnerShiftLoop(W, T, [n \in DOMAIN B.InnerShiftMap |->
                                                IF n \in Block THEN B.InnerShiftMap[n] - B.Left ELSE B.InnerShiftMap[n]],
                                      k + 1)

\* FFastAndSimplePositioningStrategy::CalculateInnerShift
CalculateInnerShift(W, T) == [T EXCEPT !.InnerShiftMap = InnerShiftLoop(W, T, EmptyMap, 1)]

\* FMath::Min and FMath::Max
Min(a, b) == IF a < b THEN a ELSE b

Max(a, b) == IF a > b THEN a ELSE b

RECURSIVE PlaceBlock(_, _), PlaceLoop(_, _, _, _)
\* the do-while loop of PlaceBlock from Node: the strategy and Initial it
\* ends with
PlaceLoop(T, BlockRoot, Node, Initial) ==
    LET Adjacency == IF T.IsLeftDirection THEN T.PredecessorMap[Node] ELSE T.SuccessorMap[Node]
        R == IF Adjacency = NULL THEN [T |-> T, Initial |-> Initial]
             ELSE LET PrevBlockRoot == T.RootMap[Adjacency]
                      T1 == PlaceBlock(T, PrevBlockRoot)
                      T2 == IF T1.SinkMap[BlockRoot] = BlockRoot
                            THEN [T1 EXCEPT !.SinkMap[BlockRoot] = T1.SinkMap[PrevBlockRoot]]
                            ELSE T1
                      Inner == T2.InnerShiftMap
                  IN IF T2.SinkMap[BlockRoot] # T2.SinkMap[PrevBlockRoot]
                     THEN LET LeftShift == T2.XMap[BlockRoot] - T2.XMap[PrevBlockRoot] + Inner[Node] - Inner[Adjacency]
                                           - T2.Size[Adjacency] - T2.VerticalSpacing
                              RightShift == T2.XMap[PrevBlockRoot] - T2.XMap[BlockRoot] - Inner[Node] + Inner[Adjacency]
                                            - T2.Size[Node] + T2.VerticalSpacing
                              Sink == T2.SinkMap[PrevBlockRoot]
                              Shift == IF T2.IsLeftDirection THEN Min(T2.ShiftMap[Sink], LeftShift)
                                       ELSE Max(T2.ShiftMap[Sink], RightShift)
                          IN [T |-> [T2 EXCEPT !.ShiftMap[Sink] = Shift], Initial |-> Initial]
                     ELSE LET LeftShift == Inner[Adjacency] + T2.Size[Adjacency] - Inner[Node] + T2.VerticalSpacing
                              RightShift == -T2.Size[Node] - T2.VerticalSpacing + Inner[Adjacency] - Inner[Node]
                              Shift == IF T2.IsLeftDirection THEN LeftShift ELSE RightShift
                              Position == T2.XMap[PrevBlockRoot] + Shift
                          IN IF Initial
                             THEN [T |-> [T2 EXCEPT !.XMap[BlockRoot] = Position], Initial |-> FALSE]
                             ELSE [T |-> [T2 EXCEPT !.XMap[BlockRoot] =
                                             IF T2.IsLeftDirection THEN Max(@, Position) ELSE Min(@, Position)],
                                   Initial |-> Initial]
    IN IF T.AlignMap[Node] = BlockRoot THEN R.T
       ELSE PlaceLoop(R.T, BlockRoot, T.AlignMap[Node], R.Initial)

\* FFastAndSimplePositioningStrategy::PlaceBlock
PlaceBlock(T, BlockRoot) ==
    IF BlockRoot \in DOMAIN T.XMap THEN T
    ELSE PlaceLoop([T EXCEPT !.XMap = MapPut(@, BlockRoot, 0)], BlockRoot, BlockRoot, TRUE)

RECURSIVE PlaceRoots(_, _)
\* the second loop of DoHorizontalCompaction from index k of the nodes
PlaceRoots(T, k) ==
    LET Nodes == LayeredSeq(T)
    IN IF k > Len(Nodes) THEN T
       ELSE PlaceRoots(IF T.RootMap[Nodes[k]] = Nodes[k] THEN PlaceBlock(T, Nodes[k]) ELSE T, k + 1)

\* the first loop of DoHorizontalCompaction: XMap has no key, that is, NAN
\* for every node
ResetMaps(T) ==
    [T EXCEPT !.SinkMap = [n \in Range(LayeredSeq(T)) |-> n], !.ShiftMap = [n \in Range(LayeredSeq(T)) |-> FLT_MAX],
              !.XMap = EmptyMap]

\* the last two loops of DoHorizontalCompaction: X1 is XMap after the first
\* of them
ShiftNodes(T) ==
    LET X1 == [n \in Range(LayeredSeq(T)) |-> T.XMap[T.RootMap[n]]]
    IN [T EXCEPT !.XMap = [n \in Range(LayeredSeq(T)) |->
                              (IF T.ShiftMap[T.SinkMap[T.RootMap[n]]] < FLT_MAX
                               THEN X1[n] + T.ShiftMap[T.SinkMap[T.RootMap[n]]] ELSE X1[n])
                              + T.InnerShiftMap[n]]]

\* FFastAndSimplePositioningStrategy::DoHorizontalCompaction
DoHorizontalCompaction(T) == ShiftNodes(PlaceRoots(ResetMaps(T), 1))

\* FFastAndSimplePositioningStrategy::DoOnePass
DoOnePass(W, T) == DoHorizontalCompaction(CalculateInnerShift(W, DoVerticalAlignment(W, T)))

\* TArray::Sort on numbers
SortValues(Values) ==
    [k \in DOMAIN Values |->
        CHOOSE v \in Range(Values) :
            /\ Cardinality({i \in DOMAIN Values : Values[i] < v}) < k
            /\ k <= Cardinality({i \in DOMAIN Values : Values[i] <= v})]

RECURSIVE MinWidthLoop(_, _, _, _)
\* the first loop of Combine from index i (from 1): the index of the first
\* layout of the least width
MinWidthLoop(Bounds, i, MinWidth, MinWidthIndex) ==
    IF i > Len(Bounds) THEN MinWidthIndex
    ELSE IF Bounds[i][2] - Bounds[i][1] < MinWidth
         THEN MinWidthLoop(Bounds, i + 1, Bounds[i][2] - Bounds[i][1], i)
         ELSE MinWidthLoop(Bounds, i + 1, MinWidth, MinWidthIndex)

\* FFastAndSimplePositioningStrategy::Combine
Combine(T) ==
    LET Nodes == Range(LayeredSeq(T))
        Layouts0 == <<T.UpperLeftPositionMap, T.UpperRightPositionMap, T.LowerLeftPositionMap, T.LowerRightPositionMap>>
        Bounds == [i \in DOMAIN Layouts0 |->
                      <<CHOOSE x \in Range(Layouts0[i]) : \A y \in Range(Layouts0[i]) : x <= y,
                        CHOOSE x \in Range(Layouts0[i]) : \A y \in Range(Layouts0[i]) : x >= y>>]
        MinWidthIndex == MinWidthLoop(Bounds, 1, FLT_MAX, 0)
        Moved == [i \in DOMAIN Layouts0 |->
                     [n \in Nodes |-> Layouts0[i][n] + (Bounds[MinWidthIndex][1] - Bounds[i][1])]]
        Values(n) == SortValues([i \in DOMAIN Moved |-> Moved[i][n]])
        Combined == IF T.PositioningAlgorithm = "EFastAndSimpleMethodTop"
                    THEN [n \in Nodes |-> (Values(n)[2] + Values(n)[3]) \div 2]
                    ELSE IF T.PositioningAlgorithm = "EFastAndSimpleMethodMedian"
                         THEN [n \in Nodes |-> (Values(n)[1] + Values(n)[4]) \div 2]
                         ELSE EmptyMap
    IN [T EXCEPT !.CombinedPositionMap = Combined, !.XMap = Combined]

\* the end of the constructor: every node gets the coordinate XMap has for
\* it, and then all are moved so that the first node of the first layer is
\* where it was
SetPositions(T) ==
    LET FirstNode == T.LayeredNodes[1][1]
        Placed == [n \in DOMAIN T.Position |-> T.XMap[n]]
        Offset == T.OldPosition - Placed[FirstNode]
    IN [T EXCEPT !.Position = [n \in DOMAIN Placed |-> Placed[n] + Offset]]

----------------------------------------------------------------------------
(* The positioning strategy on the layered graphs that the pipeline makes  *)

\* five host nodes with one input and one output pin each
FiveNodes == [u \in 1..5 |-> [In |-> 1, Out |-> 1]]

\* the host graphs of five nodes whose links go from node 1 to nodes 2 and 3
\* and from these to nodes 4 and 5
PositioningHostGraphs ==
    {H \in {HostGraphOf(FiveNodes, L) :
               L \in SubsetsUpTo(LinksBetween(FiveNodes, {1}, {2, 3}) \cup LinksBetween(FiveNodes, {2, 3}, {4, 5}), MaxLinks)} :
        IsConnected(H)}

\* the graph is built and taken through RemoveCycle, DoLayering and
\* AddDummyNodes, as Format does; DoOrderingSweep comes next
InitPositioning ==
    /\ \E H \in PositioningHostGraphs :
          \E S \in {AddDummyNodes(DoLayering(RemoveCycleOf(BuildNodesAndEdges(EmptyHeap, H, DOMAIN H.Pins))))} :
             /\ heap = S.W
             /\ graph = S.G
             /\ before = S
    /\ pc = "DoOrderingSweep"
    /\ aux = <<>>

\* the constructor of the strategy on the layered list, up to the end of
\* Initialize.  The nodes have the sizes that CalculateNodesSize gave them
\* (a dummy node the size 1), the pins the offsets that CalculatePinsOffset
\* gave them (the pins of a host node are PinRow apart, those of a dummy
\* node at 0), and a host node is at its NodePosY, which is u for host node
\* u, a dummy node at 0.  aux becomes the strategy object.
StepInitialize ==
    /\ pc = "DoPositioning"
    /\ \E HostSize \in [{heap.nodes[n].OriginalNode : n \in DOMAIN heap.nodes} \ {NULL} -> 1..MaxSize] :
       \E PinRow \in 0..MaxPinRow :
       \E VerticalSpacing \in 0..MaxSpacing :
       \E PositioningAlgorithm \in {"EFastAndSimpleMethodTop", "EFastAndSimpleMethodMedian"} :
          LET IsDummy(n) == heap.nodes[n].OriginalNode = NULL
              Size == [n \in DOMAIN heap.nodes |->
                          IF IsDummy(n) THEN Unit ELSE Unit * HostSize[heap.nodes[n].OriginalNode]]
              NodeOffset == [p \in DOMAIN heap.pins |->
                                IF heap.pins[p].OriginalPin = NULL THEN 0
                                ELSE Unit * PinRow * (IndexOf(heap.nodes[heap.pins[p].OwningNode].InPins
                                                              \o heap.nodes[heap.pins[p].OwningNode].OutPins, p) - 1)]
              Position == [n \in DOMAIN heap.nodes |->
                              IF IsDummy(n) THEN 0 ELSE Unit * heap.nodes[n].OriginalNode]
          IN aux' = Initialize(heap, NewStrategy(graph.LayeredList, Size, NodeOffset, Position,
                                                 Unit * VerticalSpacing, PositioningAlgorithm))
    /\ pc' = "UpperLeft"
    /\ UNCHANGED <<heap, graph, before>>

\* Sweep: the pass with XMap = &UpperLeftPositionMap
StepUpperLeft ==
    /\ pc = "UpperLeft"
    /\ \E T \in {DoOnePass(heap, [aux EXCEPT !.IsUpperDirection = TRUE, !.IsLeftDirection = TRUE])} :
          aux' = [T EXCEPT !.UpperLeftPositionMap = T.XMap]
    /\ pc' = "UpperRight"
    /\ UNCHANGED <<heap, graph, before>>

\* Sweep: the pass with XMap = &UpperRightPositionMap
StepUpperRight ==
    /\ pc = "UpperRight"
    /\ \E T \in {DoOnePass(heap, [aux EXCEPT !.IsUpperDirection = TRUE, !.IsLeftDirection = FALSE])} :
          aux' = [T EXCEPT !.UpperRightPositionMap = T.XMap]
    /\ pc' = "LowerLeft"
    /\ UNCHANGED <<heap, graph, before>>

\* Sweep: the pass with XMap = &LowerLeftPositionMap
StepLowerLeft ==
    /\ pc = "LowerLeft"
    /\ \E T \in {DoOnePass(heap, [aux EXCEPT !.IsUpperDirection = FALSE, !.IsLeftDirection = TRUE])} :
          aux' = [T EXCEPT !.LowerLeftPositionMap = T.XMap]
    /\ pc' = "LowerRight"
    /\ UNCHANGED <<heap, graph, before>>

\* Sweep: the pass with XMap = &LowerRightPositionMap
StepLowerRight ==
    /\ pc = "LowerRight"
    /\ \E T \in {DoOnePass(heap, [aux EXCEPT !.IsUpperDirection = FALSE, !.IsLeftDirection = FALSE])} :
          aux' = [T EXCEPT !.LowerRightPositionMap = T.XMap]
    /\ pc' = "Combine"
    /\ UNCHANGED <<heap, graph, before>>

\* Sweep ends with Combine
StepCombine ==
    /\ pc = "Combine"
    /\ aux' = Combine(aux)
    /\ pc' = "SetPosition"
    /\ UNCHANGED <<heap, graph, before>>

\* the constructor sets the positions of the nodes
StepSetPosition ==
    /\ pc = "SetPosition"
    /\ aux' = SetPositions(aux)
    /\ pc' = "Positioned"
    /\ UNCHANGED <<heap, graph, before>>

NextPositioning ==
    \/ StepDoOrderingSweep \/ StepInitialize \/ StepUpperLeft \/ StepUpperRight \/ StepLowerLeft \/ StepLowerRight
    \/ StepCombine \/ StepSetPosition

SpecPositioning == InitPositioning /\ [][NextPositioning]_vars

\* every node of the layers of Layout is at least the size of the node
\* before it and the spacing further than any node before it in its layer
Separated(T, Layout) ==
    \A i \in DOMAIN T.LayeredNodes : \A a, b \in DOMAIN T.LayeredNodes[i] :
        a < b => Layout[T.LayeredNodes[i][b]] - Layout[T.LayeredNodes[i][a]]
                    >= T.Size[T.LayeredNodes[i][a]] + T.VerticalSpacing

\* C7: after the four-direction positioning, for every two nodes u before v
\* in the same rank, the coordinate of v minus the coordinate of u is at
\* least the size of u on that axis plus VerticalSpacing.
C7_MinimumSpacing == pc = "Positioned" => Separated(aux, aux.Position)

----------------------------------------------------------------------------
(* The pipeline on the diamond A->B, A->C, B->D, C->D                      *)

\* the pins of the diamond whose nodes A, B, C, D are the host nodes P[1],
\* P[2], P[3], P[4]: A has two output pins and D two input pins
DiamondCounts(P) ==
    [u \in 1..4 |-> IF u = P[1] THEN [In |-> 1, Out |-> 2]
                    ELSE IF u = P[4] THEN [In |-> 2, Out |-> 1] ELSE [In |-> 1, Out |-> 1]]

\* input pin i and output pin i of host node u
InPinOf(Counts, u, i) == PinBase(Counts, u) + i

OutPinOf(Counts, u, i) == PinBase(Counts, u) + Counts[u].In + i

\* the diamond whose link A->B leaves output pin i of A, A->C output pin j,
\* and whose link B->D enters input pin k of D, C->D input pin l
DiamondHostGraph(P, i, j, k, l) ==
    HostGraphOf(DiamondCounts(P),
                {<<OutPinOf(DiamondCounts(P), P[1], i), InPinOf(DiamondCounts(P), P[2], 1)>>,
                 <<OutPinOf(DiamondCounts(P), P[1], j), InPinOf(DiamondCounts(P), P[3], 1)>>,
                 <<OutPinOf(DiamondCounts(P), P[2], 1), InPinOf(DiamondCounts(P), P[4], k)>>,
                 <<OutPinOf(DiamondCounts(P), P[3], 1), InPinOf(DiamondCounts(P), P[4], l)>>})

\* the diamonds in every order of the host nodes and every assignment of
\* the pins of A and D
DiamondHostGraphs ==
    {DiamondHostGraph(P, i, j, k, l) : P \in Permutations(1..4), i \in 1..2, j \in 1..2, k \in 1..2, l \in 1..2}

\* the graph of a diamond is built
InitDiamond ==
    /\ \E H \in DiamondHostGraphs :
          \E S \in {BuildNodesAndEdges(EmptyHeap, H, DOMAIN H.Pins)} :
             /\ heap = S.W
             /\ graph = S.G
             /\ before = S
    /\ pc = "RemoveCycle"
    /\ aux = <<>>

SpecDiamond == InitDiamond /\ [][Next]_vars

\* the layered list has the ranks of the diamond: the node without in-edges,
\* then the two nodes with an in-edge and an out-edge, then the node without
\* out-edges; and no node is a dummy node
DiamondRanks(W, G) ==
    /\ Len(G.Nodes) = 4
    /\ \A n \in Range(G.Nodes) : W.nodes[n].OriginalNode # NULL
    /\ Len(G.LayeredList) = 3
    /\ Len(G.LayeredList[1]) = 1 /\ Len(G.LayeredList[2]) = 2 /\ Len(G.LayeredList[3]) = 1
    /\ IsSource(W, G.LayeredList[1][1])
    /\ \A n \in Range(G.LayeredList[2]) : ~IsSource(W, n) /\ ~IsSink(W, n)
    /\ IsSink(W, G.LayeredList[3][1])

\* C14: for the diamond, whatever the order of the nodes and the assignment
\* of the pins, at the end of RemoveCycle, DoLayering, AddDummyNodes and
\* DoOrderingSweep A is in rank 0, B and C in rank 1, D in rank 2, there is
\* no dummy node, and the crossing count is 0.
C14_DiamondRanksNoCrossing ==
    pc = "DoPositioning" =>
        /\ DiamondRanks(heap, graph)
        /\ CalculateCrossing(heap, graph.LayeredList) = 0

\* C14 amended: for the diamond, whatever the order of the nodes and the
\* assignment of the pins, at the end of the pipeline A is in rank 0, B and
\* C in rank 1, D in rank 2, there is no dummy node, and the crossing count
\* is the least that an order of B and C has: 0, or 1 when the pins of A
\* and the pins of D put B and C in opposite orders.
C14_DiamondRanksLeastCrossing ==
    pc = "DoPositioning" =>
        /\ DiamondRanks(heap, graph)
        /\ \A O \in Arrangements(graph.LayeredList) :
              CalculateCrossing(heap, graph.LayeredList) <= CalculateCrossing(heap, O)
        /\ CalculateCrossing(heap, graph.LayeredList) <= 1

\* C14 witness: the pipeline has ended on a diamond whose order before the
\* ordering sweep had two crossings and whose order after it has none
C14_Witness ==
    /\ pc = "DoPositioning"
    /\ DiamondRanks(heap, graph)
    /\ CalculateCrossing(before.W, before.G.LayeredList) = 2
    /\ CalculateCrossing(heap, graph.LayeredList) = 0

----------------------------------------------------------------------------
(* Container nodes: Format fits a node to its subgraph, and positioning     *)
(* moves the node with its subgraph                                         *)

\* the setting CommentBorder is from 0 to MaxBorder
MaxBorder == 1

\* the positions and offsets that the moves take
Points == ((-MaxCoord)..MaxCoord) \X ((-MaxCoord)..MaxCoord)

\* the three statements of Format after SubGraph->Format(): the node gets
\* its position and its size from the total bound of its subgraph
FitContainer(Node, SubGraph, CommentBorder) ==
    [Node EXCEPT !.SubGraph = <<SubGraph>>,
                 !.Position = <<SubGraph.TotalBound.Left - CommentBorder, SubGraph.TotalBound.Top - CommentBorder>>,
                 !.Size = <<(SubGraph.TotalBound.Right - SubGraph.TotalBound.Left) + CommentBorder * 2,
                            (SubGraph.TotalBound.Bottom - SubGraph.TotalBound.Top) + CommentBorder * 2>>]

\* a graph without isolated graphs as its Format leaves it: the nodes are
\* placed and TotalBound is their bound
FormattedOf(Nodes) == [Nodes |-> Nodes, IsolatedGraphs |-> <<>>, TotalBound |-> BoundOfNodes(Nodes, DefaultRect)]

\* a graph of two isolated graphs as its Format leaves it: the second is
\* moved under the first
FormattedIsolated(First, Second, VerticalSpacing) ==
    LET Placed == SetPosition(Second, <<First.TotalBound.Left, First.TotalBound.Bottom + VerticalSpacing>>)
    IN [Nodes |-> {}, IsolatedGraphs |-> <<First, Placed>>, TotalBound |-> Expand(First.TotalBound, Placed.TotalBound)]

\* a node before Format, with a subgraph when SubGraph is <<a graph>>
BlankNode(SubGraph) == [Position |-> <<0, 0>>, Size |-> <<1, 1>>, SubGraph |-> SubGraph]

\* what SubGraph->Format() can leave of a subgraph: its nodes placed, or one
\* container node in it, fitted and placed, or two isolated graphs
FormattedGraphs(CommentBorder) ==
    LET Single == {FormattedOf({n}) : n \in UNION Layouts}
    IN {FormattedOf(Nodes) : Nodes \in Layouts}
       \cup {FormattedOf({NodeSetPosition(FitContainer(BlankNode(<<>>), F, CommentBorder), P)}) :
                F \in Single, P \in Points}
       \cup {FormattedIsolated(F[1], F[2], v) : F \in Single \X Single, v \in 0..MaxSpacing}

\* a graph of one node with a subgraph and at most one node without is
\* constructed; aux has the setting CommentBorder and the number of moves
InitContainer ==
    /\ \E Others \in {{}, {BlankNode(<<>>)}} :
          graph = [Nodes |-> {BlankNode(<<FormattedOf({})>>)} \cup Others, IsolatedGraphs |-> <<>>,
                   TotalBound |-> DefaultRect]
    /\ \E b \in 0..MaxBorder : aux = [CommentBorder |-> b, Count |-> 0]
    /\ heap = EmptyHeap
    /\ before = <<>>
    /\ pc = "SubGraphs"

\* the loop of Format over SubGraphs: the subgraph of the node is formatted
\* and the node is fitted to it
StepFormatSubGraphs ==
    /\ pc = "SubGraphs"
    /\ \E Node \in {n \in graph.Nodes : n.SubGraph # <<>>} :
          \E F \in FormattedGraphs(aux.CommentBorder) :
             graph' = [graph EXCEPT !.Nodes = (@ \ {Node}) \cup {FitContainer(Node, F, aux.CommentBorder)}]
    /\ pc' = "DoPositioning"
    /\ UNCHANGED <<heap, before, aux>>

\* the two loops that a positioning strategy ends with: every node is set
\* to its place, then every node is moved by the offset that takes the first
\* node back where it was, and TotalBound is the bound of the nodes
StepPositionNodes ==
    /\ pc = "DoPositioning"
    /\ \E FirstNode \in graph.Nodes : \E Place \in [graph.Nodes -> Points] :
          LET Offset == <<FirstNode.Position[1] - Place[FirstNode][1], FirstNode.Position[2] - Place[FirstNode][2]>>
              Nodes == {NodeSetPosition(NodeSetPosition(n, Place[n]),
                                        <<Place[n][1] + Offset[1], Place[n][2] + Offset[2]>>) : n \in graph.Nodes}
          IN graph' = [graph EXCEPT !.Nodes = Nodes, !.TotalBound = BoundOfNodes(Nodes, DefaultRect)]
    /\ pc' = "Done"
    /\ UNCHANGED <<heap, before, aux>>

\* OffsetBy is called on the graph
StepGraphOffsetBy ==
    /\ pc = "Done" /\ aux.Count < MaxMutations
    /\ \E InOffset \in Points : graph' = OffsetBy(graph, InOffset)
    /\ aux' = [aux EXCEPT !.Count = @ + 1]
    /\ UNCHANGED <<heap, before, pc>>

\* SetPosition is called on the graph
StepGraphSetPosition ==
    /\ pc = "Done" /\ aux.Count < MaxMutations
    /\ \E Position \in Points : graph' = SetPosition(graph, Position)
    /\ aux' = [aux EXCEPT !.Count = @ + 1]
    /\ UNCHANGED <<heap, before, pc>>

NextContainer == StepFormatSubGraphs \/ StepPositionNodes \/ StepGraphOffsetBy \/ StepGraphSetPosition

SpecContainer == InitContainer /\ [][NextContainer]_vars

RECURSIVE NodesOf(_)
\* the nodes of G and of its isolated graphs
NodesOf(G) == G.Nodes \cup UNION {NodesOf(G.IsolatedGraphs[i]) : i \in DOMAIN G.IsolatedGraphs}

RECURSIVE Fits(_, _)
\* a node with a subgraph has the size and the place of the total bound of
\* the subgraph with the border around it, the total bound is the bound of
\* the nodes of the subgraph, and the same is true of these nodes
Fits(Node, CommentBorder) ==
    Node.SubGraph # <<>> =>
        LET Bound == Node.SubGraph[1].TotalBound
        IN /\ Node.Size = <<(Bound.Right - Bound.Left) + 2 * CommentBorder, (Bound.Bottom - Bound.Top) + 2 * CommentBorder>>
           /\ Node.Position = <<Bound.Left - CommentBorder, Bound.Top - CommentBorder>>
           /\ Bound = BoundOfNodes(NodesOf(Node.SubGraph[1]), DefaultRect)
           /\ \A n \in NodesOf(Node.SubGraph[1]) : Fits(n, CommentBorder)

\* C17: after Format every node with a subgraph has the size of the total
\* bound of the subgraph plus two times CommentBorder in each dimension and
\* the position of the top left of that bound minus (CommentBorder,
\* CommentBorder), and this is still so after the positioning of the graph
\* and after OffsetBy and SetPosition have moved the node, the subgraph
\* being moved by the same offset.
C17_ContainerFitsSubGraph ==
    pc \in {"DoPositioning", "Done"} => \A Node \in graph.Nodes : Fits(Node, aux.CommentBorder)

\* C17 witness: a node whose subgraph has a node with a subgraph of its own
\* was fitted with a border, placed by the positioning away from where
\* Format had put it, and moved by OffsetBy or SetPosition twice
C17_Witness ==
    /\ pc = "Done" /\ aux.Count = 2 /\ aux.CommentBorder > 0
    /\ \E Node \in graph.Nodes :
          /\ Node.SubGraph # <<>>
          /\ Node.Position[1] > 0 /\ Node.Position[2] > 0
          /\ \E n \in Node.SubGraph[1].Nodes : n.SubGraph # <<>>
    /\ Cardinality(graph.Nodes) = 2

----------------------------------------------------------------------------
(* graph_layout: ranking by network simplex.  The header declares edge_t,  *)
(* tree_t and graph_t; the steps are those of the network-simplex strategy  *)
(* of the specification.  A graph has the nodes 1..n and a set of edges     *)
(* [tail, head, weight, min_length] that go from a node to a greater one,   *)
(* a rank is a function of the nodes, and the cut value of a tree edge is   *)
(* the weight of the edges from its tail component to its head component    *)
(* less the weight of the edges from its head component to its tail         *)
(* component, the reading under which a negative cut value with an enter    *)
(* edge in the opposite direction is a profitable exchange.                 *)

\* a graph to rank has up to MaxRankNodes nodes
MaxRankNodes == 5

\* and up to MaxRankEdges edges
MaxRankEdges == 5

\* of a weight from 1 to MaxWeight
MaxWeight == 2

\* edge_t::length
length(rank, e) == rank[e.head] - rank[e.tail]

\* edge_t::slack
slack(rank, e) == length(rank, e) - e.min_length

\* the sum of the weights of Edges
TotalWeight(Edges) == SumSeq([w \in 1..MaxWeight |-> w * Cardinality({e \in Edges : e.weight = w})])

RECURSIVE TotalLength(_, _)
\* the total weighted edge length: the sum of weight x length over Edges
TotalLength(rank, Edges) ==
    IF Edges = {} THEN 0
    ELSE LET e == CHOOSE x \in Edges : TRUE IN e.weight * length(rank, e) + TotalLength(rank, Edges \ {e})

\* node_t::get_direct_connected_nodes, repeated: the nodes that Edges join
\* to a node of S, in either direction, which are the nodes in every set
\* that has S and, with one end of an edge, the other end
ConnectedNodes(Edges, S) ==
    {v \in 1..MaxRankNodes :
        \A C \in SUBSET (1..MaxRankNodes) :
            (S \subseteq C /\ \A e \in Edges : (e.tail \in C) = (e.head \in C)) => v \in C}

\* the connected acyclic graphs with default minimum lengths
RankGraphs ==
    {G \in [nodes : {1..n : n \in 2..MaxRankNodes},
            edges : SubsetsUpTo({e \in [tail : 1..MaxRankNodes, head : 1..MaxRankNodes, weight : 1..MaxWeight,
                                        min_length : {1}] : e.tail < e.head}, MaxRankEdges)] :
        /\ \A e \in G.edges : e.head \in G.nodes
        /\ \A e, f \in G.edges : (e.tail = f.tail /\ e.head = f.head) => e = f
        /\ ConnectedNodes(G.edges, {1}) = G.nodes}

\* the greatest element of a set of integers
MaxOf(S) == CHOOSE m \in S : \A x \in S : x <= m

RECURSIVE RankFrom(_, _, _)
\* the loop of init_rank from the node v, in the order of the nodes, which
\* has the tail of an edge before its head: a node without in-edges gets
\* the rank 0, another one the least rank its in-edges allow
RankFrom(G, rank, v) ==
    IF v \in G.nodes
    THEN RankFrom(G, Append(rank, MaxOf({0} \cup {rank[e.tail] + e.min_length : e \in {x \in G.edges : x.head = v}})),
                  v + 1)
    ELSE rank

\* graph_t::init_rank: the first feasible ranking, by the longest path
init_rank(G) == RankFrom(G, <<>>, 1)

\* graph_t::tight_tree: the nodes of the greatest tree of tight edges with
\* the node start
tight_tree(G, rank, start) == ConnectedNodes({e \in G.edges : slack(rank, e) = 0}, {start})

\* the edges that tree_t::find_min_incident_edge can return: the edges of
\* the least slack with one end in Nodes
find_min_incident_edge(G, rank, Nodes) ==
    {e \in G.edges : /\ (e.tail \in Nodes) # (e.head \in Nodes)
                     /\ \A f \in G.edges : ((f.tail \in Nodes) # (f.head \in Nodes)) => slack(rank, e) <= slack(rank, f)}

\* the shift of feasible_tree: the ranks of Nodes move by the slack of e,
\* which makes e tight
tighten(rank, Nodes, e) ==
    [v \in DOMAIN rank |->
        IF v \in Nodes THEN rank[v] + (IF e.head \in Nodes THEN -slack(rank, e) ELSE slack(rank, e)) ELSE rank[v]]

\* the spanning trees of tight edges
TightSpanningTrees(G, rank) ==
    {T \in SUBSET {e \in G.edges : slack(rank, e) = 0} :
        Cardinality(T) = Cardinality(G.nodes) - 1 /\ ConnectedNodes(T, {1}) = G.nodes}

\* tree_t::split_to_head_tail: the head component of the tree edge e
HeadComponent(tree_edges, e) == ConnectedNodes(tree_edges \ {e}, {e.head})

\* the cut value without the weight of the edges from the head component
CutValueForward(G, Heads) == TotalWeight({f \in G.edges : f.tail \notin Heads /\ f.head \in Heads})

\* the cut value for the head component Heads
CutValueOf(G, Heads) ==
    TotalWeight({f \in G.edges : f.tail \notin Heads /\ f.head \in Heads})
        - TotalWeight({f \in G.edges : f.tail \in Heads /\ f.head \notin Heads})

\* tree_t::calculate_cut_values, for the tree edge e
cut_value(G, tree_edges, e) == CHOOSE c \in {CutValueOf(G, Heads) : Heads \in {HeadComponent(tree_edges, e)}} : TRUE

\* the edges that tree_t::leave_edge can return: the tree edges of a
\* negative cut value
leave_edge(G, tree_edges) == {e \in tree_edges : cut_value(G, tree_edges, e) < 0}

\* the edges from the head component Heads to the tail component that are
\* not in the tree
CrossingBack(G, tree_edges, Heads) == {f \in G.edges \ tree_edges : f.tail \in Heads /\ f.head \notin Heads}

\* the edges of the least slack of Edges
LeastSlack(rank, Edges) == {f \in Edges : \A g \in Edges : slack(rank, f) <= slack(rank, g)}

\* the edges that tree_t::enter_edge can return for the leave edge e
enter_edge(G, rank, tree_edges, e) ==
    UNION {LeastSlack(rank, CrossingBack(G, tree_edges, Heads)) : Heads \in {HeadComponent(tree_edges, e)}}

\* the ranks after an exchange that moves the head component the other way
RetightenBack(rank, Heads, f) == [v \in DOMAIN rank |-> IF v \in Heads THEN rank[v] - slack(rank, f) ELSE rank[v]]

\* the ranks after the exchange: the head component moves by the slack of f
Retighten(rank, Heads, f) == [v \in DOMAIN rank |-> IF v \in Heads THEN rank[v] + slack(rank, f) ELSE rank[v]]

\* tree_t::exchange with the shift that makes the enter edge f tight
exchange(rank, tree_edges, e, f) ==
    CHOOSE X \in {[rank |-> Retighten(rank, Heads, f), tree_edges |-> (tree_edges \ {e}) \cup {f}] :
                     Heads \in {HeadComponent(tree_edges, e)}} : TRUE

\* graph_t::normalize: the least rank is 0
normalize(rank) == [v \in DOMAIN rank |-> rank[v] - (CHOOSE m \in Range(rank) : \A x \in Range(rank) : m <= x)]

\* a graph_t is constructed: it has no nodes and no edges
InitSimplex ==
    /\ graph = [nodes |-> {}, edges |-> {}]
    /\ aux = <<>>
    /\ heap = EmptyHeap
    /\ before = <<>>
    /\ pc = "add_node"

\* add_node and add_edge make the graph, which is handed to rank()
StepAddNodes ==
    /\ pc = "add_node"
    /\ graph' \in RankGraphs
    /\ pc' = "init_rank"
    /\ UNCHANGED <<heap, before, aux>>

\* init_rank; aux has the node the tight tree grows from and the number of
\* exchanges
StepInitRank ==
    /\ pc = "init_rank"
    /\ \E start \in graph.nodes :
          aux' = [rank |-> init_rank(graph), tree_edges |-> {}, start |-> start, exchanges |-> 0]
    /\ pc' = "feasible_tree"
    /\ UNCHANGED <<heap, graph, before>>

\* one turn of the loop of feasible_tree: the tight tree does not span the
\* graph, and its ranks move to make an incident edge of the least slack
\* tight
StepTighten ==
    /\ pc = "feasible_tree"
    /\ \E Nodes \in {tight_tree(graph, aux.rank, aux.start)} :
          /\ Nodes # graph.nodes
          /\ \E e \in find_min_incident_edge(graph, aux.rank, Nodes) :
                aux' = [aux EXCEPT !.rank = tighten(aux.rank, Nodes, e)]
    /\ UNCHANGED <<heap, graph, before, pc>>

\* the end of feasible_tree: the tight tree spans the graph
StepFeasibleTree ==
    /\ pc = "feasible_tree"
    /\ tight_tree(graph, aux.rank, aux.start) = graph.nodes
    /\ \E T \in TightSpanningTrees(graph, aux.rank) : aux' = [aux EXCEPT !.tree_edges = T]
    /\ pc' = "rank"
    /\ UNCHANGED <<heap, graph, before>>

\* one turn of the loop of rank(): a leave edge is exchanged with its enter
\* edge; before keeps the ranks the exchange found
StepExchange ==
    /\ pc = "rank"
    /\ \E e \in leave_edge(graph, aux.tree_edges) : \E f \in enter_edge(graph, aux.rank, aux.tree_edges, e) :
          \E X \in {exchange(aux.rank, aux.tree_edges, e, f)} :
             aux' = [aux EXCEPT !.rank = X.rank, !.tree_edges = X.tree_edges, !.exchanges = @ + 1]
    /\ before' = aux.rank
    /\ UNCHANGED <<heap, graph, pc>>

\* the end of rank(): there is no leave edge, and the ranks are normalized
StepNormalize ==
    /\ pc = "rank"
    /\ leave_edge(graph, aux.tree_edges) = {}
    /\ aux' = [aux EXCEPT !.rank = normalize(aux.rank)]
    /\ pc' = "done"
    /\ UNCHANGED <<heap, graph, before>>

NextSimplex == StepAddNodes \/ StepInitRank \/ StepTighten \/ StepFeasibleTree \/ StepExchange \/ StepNormalize

SpecSimplex == InitSimplex /\ [][NextSimplex]_vars

\* rank() goes on while it has a step to take
SpecSimplexFair == SpecSimplex /\ WF_vars(NextSimplex)

RECURSIVE LongestPathFrom(_, _)
\* the greatest number of edges over the paths of G that start in v, the
\* path depth of the longest-path layering
LongestPathFrom(G, v) ==
    IF \E e \in G.edges : e.tail = v
    THEN LET e == CHOOSE x \in G.edges :
                     /\ x.tail = v
                     /\ \A y \in G.edges : y.tail = v => LongestPathFrom(G, y.head) <= LongestPathFrom(G, x.head)
         IN LongestPathFrom(G, e.head) + 1
    ELSE 0

\* the ranking of the longest-path layering: a node is as many ranks before
\* the last as its path depth
LongestPathRank(G) == [v \in G.nodes |-> 0 - LongestPathFrom(G, v)]

\* C18: for a connected acyclic graph with a non-tree edge, the ranking of
\* rank() is feasible, the slack of every edge being 0 or more, and its
\* total weighted edge length is at most that of the ranking by the longest
\* path of the same graph, taken from the sources or from the sinks.
C18_SimplexNoLongerThanLongestPath ==
    (pc = "done" /\ Cardinality(graph.edges) >= Cardinality(graph.nodes)) =>
        /\ \A e \in graph.edges : slack(aux.rank, e) >= 0
        /\ TotalLength(aux.rank, graph.edges) <= TotalLength(init_rank(graph), graph.edges)
        /\ TotalLength(aux.rank, graph.edges) <= TotalLength(LongestPathRank(graph), graph.edges)

\* C18 witness: rank() has ended after an exchange on a graph with a
\* non-tree edge, with a total length less than that of the longest-path
\* layering
C18_Witness ==
    /\ pc = "done" /\ Cardinality(graph.edges) >= Cardinality(graph.nodes)
    /\ aux.exchanges > 0
    /\ TotalLength(aux.rank, graph.edges) < TotalLength(LongestPathRank(graph), graph.edges)

\* the loop of rank() has a step to take exactly when a tree edge has a
\* negative cut value: a leave edge has an enter edge, and the loop has
\* ended only without a leave edge
StopsWithoutLeaveEdge ==
    /\ pc = "rank" => \A e \in leave_edge(graph, aux.tree_edges) : enter_edge(graph, aux.rank, aux.tree_edges, e) # {}
    /\ pc = "done" => leave_edge(graph, aux.tree_edges) = {}

\* C19, as stated: on every connected acyclic graph the loop of rank()
\* ends; each exchange of a leave edge with its enter edge makes the total
\* weighted edge length less, and the loop ends exactly when no tree edge
\* has a negative cut value.
C19_ExchangeStrictlyDecreases ==
    /\ [][(pc = "rank" /\ pc' = "rank") =>
             TotalLength(aux'.rank, graph.edges) < TotalLength(aux.rank, graph.edges)]_vars
    /\ []StopsWithoutLeaveEdge
    /\ <>(pc = "done")

\* C19, amended: on every connected acyclic graph the loop of rank() ends;
\* no exchange of a leave edge with its enter edge makes the total weighted
\* edge length greater, an exchange makes it less exactly when the enter
\* edge has a slack above 0, every exchange leaves the ranking feasible, and
\* the loop ends exactly when no tree edge has a negative cut value.
C19_ExchangeNeverIncreases ==
    /\ [][(pc = "rank" /\ pc' = "rank") =>
             /\ TotalLength(aux'.rank, graph.edges) <= TotalLength(aux.rank, graph.edges)
             /\ (TotalLength(aux'.rank, graph.edges) < TotalLength(aux.rank, graph.edges))
                    <=> (\E f \in aux'.tree_edges \ aux.tree_edges : slack(aux.rank, f) > 0)
             /\ \A e \in graph.edges : slack(aux'.rank, e) >= 0]_vars
    /\ []StopsWithoutLeaveEdge
    /\ <>(pc = "done")

\* C19 witness: the loop of rank() has ended after an exchange that made
\* the total weighted edge length less, with an enter edge that was not
\* tight
C19_Witness ==
    /\ pc = "done" /\ aux.exchanges > 0
    /\ TotalLength(aux.rank, graph.edges) < TotalLength(before, graph.edges)
    /\ \E f \in aux.tree_edges : slack(before, f) > 0

----------------------------------------------------------------------------
(* RemoveCycle, one turn of a loop at a time                               *)

\* RemoveCycle has cloned the graph of this object: aux holds the clone and
\* the number of nodes each loop has removed from it
InitCycle ==
    /\ \E H \in HostGraphs \cup RankedHostGraphs :
          \E S \in {BuildNodesAndEdges(EmptyHeap, H, DOMAIN H.Pins)} :
             \E C \in {CloneGraph(S.W, S.G)} :
                /\ before = S
                /\ graph = S.G
                /\ heap = C.W
                /\ aux = [G |-> C.G, Sources |-> 0, Sinks |-> 0, Medians |-> 0]
    /\ pc = "Sources"

\* the test of the first loop and, when a source node is found, its body
StepSourceLoop ==
    /\ pc = "Sources"
    /\ \E SourceNode \in {FindSourceNode(heap, aux.G)} :
          IF SourceNode # NULL
          THEN \E S \in {RemoveNode([W |-> heap, G |-> aux.G], SourceNode)} :
                  /\ heap' = S.W
                  /\ aux' = [aux EXCEPT !.G = S.G, !.Sources = @ + 1]
                  /\ pc' = pc
          ELSE /\ pc' = "Sinks"
               /\ UNCHANGED <<heap, aux>>
    /\ UNCHANGED <<graph, before>>

\* the test of the second loop and, when a sink node is found, its body
StepSinkLoop ==
    /\ pc = "Sinks"
    /\ \E SinkNode \in {FindSinkNode(heap, aux.G)} :
          IF SinkNode # NULL
          THEN \E S \in {RemoveNode([W |-> heap, G |-> aux.G], SinkNode)} :
                  /\ heap' = S.W
                  /\ aux' = [aux EXCEPT !.G = S.G, !.Sinks = @ + 1]
                  /\ pc' = pc
          ELSE /\ pc' = "Medians"
               /\ UNCHANGED <<heap, aux>>
    /\ UNCHANGED <<graph, before>>

\* the test of the third loop and, when a median node is found, its body;
\* when none is found the clone is deleted, and aux keeps its record
StepMedianLoop ==
    /\ pc = "Medians"
    /\ \E MedianNode \in {FindMedianNode(heap, aux.G)} :
          IF MedianNode # NULL
          THEN \E W1 \in {DropInEdges(heap, graph, heap.nodes[MedianNode].Guid, heap.nodes[MedianNode].InEdges, 1)} :
                  \E S \in {RemoveNode([W |-> W1, G |-> aux.G], MedianNode)} :
                     /\ heap' = S.W
                     /\ aux' = [aux EXCEPT !.G = S.G, !.Medians = @ + 1]
                     /\ pc' = pc
          ELSE /\ heap' = DeleteGraph(heap, aux.G)
               /\ pc' = "Done"
               /\ UNCHANGED aux
    /\ UNCHANGED <<graph, before>>

NextCycle == StepSourceLoop \/ StepSinkLoop \/ StepMedianLoop

SpecCycle == InitCycle /\ [][NextCycle]_vars

\* RemoveCycle goes on while it has a step to take
SpecCycleFair == SpecCycle /\ WF_vars(NextCycle)

\* C20: RemoveCycle ends on every graph; in its last loop FindMedianNode
\* returns a node whenever the clone has a node, so that the loop ends only
\* with a clone without nodes, and every turn of a loop that finds a node
\* takes exactly one node out of the clone.
C20_RemoveCycleTerminates ==
    /\ []((pc = "Medians" /\ aux.G.Nodes # <<>>) => FindMedianNode(heap, aux.G) # NULL)
    /\ [](pc = "Done" => aux.G.Nodes = <<>>)
    /\ [][(pc \in {"Sources", "Sinks", "Medians"} /\ pc' = pc) => Len(aux'.G.Nodes) = Len(aux.G.Nodes) - 1]_vars
    /\ [][(pc \in {"Sources", "Sinks", "Medians"} /\ pc' # pc) => aux'.G = aux.G]_vars
    /\ <>(pc = "Done")

\* C20 witness: RemoveCycle has ended on a graph of three nodes, its first
\* loop having removed a node and its last loop two, with the heap that the
\* call of RemoveCycle in Format leaves
C20_Witness ==
    /\ pc = "Done" /\ Len(graph.Nodes) = 3
    /\ aux.Sources = 1 /\ aux.Medians = 2
    /\ heap = RemoveCycle(before.W, before.G)

\* C21: on a graph without a cycle RemoveCycle changes nothing: its last loop
\* removes no node (the loops for source and sink nodes empty the clone), and
\* every node of the graph has the in-edge and out-edge lists it had before
\* the call, no edge being removed or turned round.
C21_AcyclicUnchanged ==
    Acyclic(before.W, before.G) =>
        /\ aux.Medians = 0
        /\ pc = "Done" => aux.Sources + aux.Sinks = Len(graph.Nodes)
        /\ \A n \in Range(graph.Nodes) :
              /\ heap.nodes[n].InEdges = before.W.nodes[n].InEdges
              /\ heap.nodes[n].OutEdges = before.W.nodes[n].OutEdges

\* C21 witness: RemoveCycle has ended on a graph of three nodes and two
\* edges or more that has no cycle
C21_Witness ==
    /\ pc = "Done" /\ Acyclic(before.W, before.G)
    /\ Len(graph.Nodes) = 3 /\ OutEdgeCount(heap, graph) >= 2

----------------------------------------------------------------------------
(* CalculateLongestPath, one round of its loop at a time                   *)

\* a graph is built, with or without a cycle; every node has PathDepth 0
InitLongestPath ==
    /\ \E H \in HostGraphs \cup RankedHostGraphs :
          \E S \in {BuildNodesAndEdges(EmptyHeap, H, DOMAIN H.Pins)} :
             /\ heap = S.W
             /\ graph = S.G
             /\ before = S
    /\ pc = "CalculateLongestPath"
    /\ aux = [LongestPath |-> 1, Rounds |-> 0, Result |-> 0]

\* one turn of while (true): the leaves are looked for; without any the loop
\* is left and LongestPath - 1 is returned, else the leaves get the depth
\* LongestPath, which goes up by one
StepLongestPathRound ==
    /\ pc = "CalculateLongestPath"
    /\ \E Leaves \in {GetLeavesWidthPathDepthEqu0(heap, graph)} :
          IF Len(Leaves) = 0
          THEN /\ pc' = "Done"
               /\ aux' = [aux EXCEPT !.Result = aux.LongestPath - 1]
               /\ UNCHANGED heap
          ELSE /\ heap' = [heap EXCEPT !.nodes = [a \in DOMAIN @ |-> IF a \in Range(Leaves)
                                                                    THEN [@[a] EXCEPT !.PathDepth = aux.LongestPath]
                                                                    ELSE @[a]]]
               /\ aux' = [aux EXCEPT !.LongestPath = @ + 1, !.Rounds = @ + 1]
               /\ pc' = pc
    /\ UNCHANGED <<graph, before>>

NextLongestPath == StepLongestPathRound

SpecLongestPath == InitLongestPath /\ [][NextLongestPath]_vars

\* CalculateLongestPath goes on while it has a step to take
SpecLongestPathFair == SpecLongestPath /\ WF_vars(NextLongestPath)

\* the depths of the successors of Node
SuccessorDepths(W, Node) == {W.nodes[s].PathDepth : s \in OutNeighbours(W, Node)}

\* Node is on a cycle of out-edges or reaches a node that is
OnOrUpstreamOfCycle(W, Node) ==
    \E c \in Descendants(W, {Node}) : c \in Descendants(W, OutNeighbours(W, c))

\* C22: CalculateLongestPath ends on every graph.  On a graph without a
\* cycle whose nodes start with depth 0 it ends after at most |V| rounds that
\* give a depth, every sink has depth 1, every other node has depth 1 + the
\* greatest depth of its successors, and the value returned is the greatest
\* depth given.  On a graph with a cycle the nodes on the cycle and the nodes
\* that reach it are left with depth 0.
C22_LongestPathDepths ==
    /\ [](aux.Rounds <= Len(graph.Nodes))
    /\ []((pc = "Done" /\ Acyclic(heap, graph)) =>
             /\ \A n \in Range(graph.Nodes) :
                   /\ IsSink(heap, n) => heap.nodes[n].PathDepth = 1
                   /\ ~IsSink(heap, n) =>
                         \E m \in SuccessorDepths(heap, n) :
                            /\ \A d \in SuccessorDepths(heap, n) : d <= m
                            /\ heap.nodes[n].PathDepth = 1 + m
             /\ \E n \in Range(graph.Nodes) : heap.nodes[n].PathDepth = aux.Result
             /\ \A n \in Range(graph.Nodes) : heap.nodes[n].PathDepth <= aux.Result)
    /\ []((pc = "Done" /\ ~Acyclic(heap, graph)) =>
             \A n \in Range(graph.Nodes) :
                OnOrUpstreamOfCycle(heap, n) => heap.nodes[n].PathDepth = 0)
    /\ <>(pc = "Done")

\* C22 witness: the loop has ended after three rounds on a graph of three
\* nodes without a cycle, with the result of CalculateLongestPath
C22_Witness ==
    /\ pc = "Done" /\ Acyclic(heap, graph)
    /\ Len(graph.Nodes) = 3 /\ aux.Rounds = 3 /\ aux.Result = 3
    /\ CalculateLongestPath(before.W, graph) = [W |-> heap, LongestPath |-> aux.Result]

\* a graph with a cycle, a node of which is given a depth and another is not
C22_WitnessCycle ==
    /\ pc = "Done" /\ ~Acyclic(heap, graph)
    /\ \E n, m \in Range(graph.Nodes) : heap.nodes[n].PathDepth = 0 /\ heap.nodes[m].PathDepth > 0

----------------------------------------------------------------------------
(* AddDummyNodes: the chain that takes the place of a long edge            *)

\* the number (from 1) of the layer of LayeredList that holds Node
RankOf(G, Node) == CHOOSE i \in LayersOf(G, Node) : TRUE

\* the edge of the other end of the out-edge Edge
Mirror(Edge) == [From |-> Edge.To, To |-> Edge.From]

RECURSIVE DummyPath(_, _, _, _, _, _, _)
\* the out-edge Edge, which leaves rank Rank, leads to the pin To through d - 1
\* nodes that are not nodes of Old, one in each next rank, with one input
\* pin, one in-edge, one output pin and one out-edge each
DummyPath(W, G, Old, Edge, To, Rank, d) ==
    IF d = 1 THEN Edge.To = To
    ELSE LET n == W.pins[Edge.To].OwningNode
         IN /\ n \notin Old
            /\ W.nodes[n].OriginalNode = NULL
            /\ LayersOf(G, n) = {Rank + 1}
            /\ Len(W.nodes[n].InPins) = 1 /\ Len(W.nodes[n].InEdges) = 1
            /\ Len(W.nodes[n].OutPins) = 1 /\ Len(W.nodes[n].OutEdges) = 1
            /\ W.nodes[n].InEdges[1] = Mirror(Edge)
            /\ DummyPath(W, G, Old, W.nodes[n].OutEdges[1], To, Rank + 1, d - 1)

\* the out-edges of the nodes of G with the node they leave:
\* [Node, Edge, d], d being the number of ranks the edge spans
SpannedEdges(W, G) ==
    UNION {{[Node |-> n, Edge |-> W.nodes[n].OutEdges[k],
             d |-> RankOf(G, W.pins[W.nodes[n].OutEdges[k].To].OwningNode) - RankOf(G, n)] :
               k \in DOMAIN W.nodes[n].OutEdges} : n \in Range(G.Nodes)}

RECURSIVE DummiesFor(_)
\* d - 1 nodes for every edge of Spanned that spans d ranks
DummiesFor(Spanned) ==
    IF Spanned = {} THEN 0
    ELSE LET s == CHOOSE x \in Spanned : TRUE IN (s.d - 1) + DummiesFor(Spanned \ {s})

\* the out-edge lists after AddDummyNodes: an edge over one rank is kept, an
\* edge over d > 1 ranks has left the out-edge list of its node, which has
\* an edge from the same pin to a chain of d - 1 new nodes that ends at the
\* pin the edge led to
OutEdgesChained(W, G, WBefore, GBefore) ==
    \A s \in SpannedEdges(WBefore, GBefore) :
        /\ s.d = 1 => Contains(W.nodes[s.Node].OutEdges, s.Edge)
        /\ s.d > 1 =>
              /\ ~Contains(W.nodes[s.Node].OutEdges, s.Edge)
              /\ \E k \in DOMAIN W.nodes[s.Node].OutEdges :
                    /\ W.nodes[s.Node].OutEdges[k].From = s.Edge.From
                    /\ DummyPath(W, G, Range(GBefore.Nodes), W.nodes[s.Node].OutEdges[k],
                                 s.Edge.To, RankOf(G, s.Node), s.d)

\* the in-edge lists after AddDummyNodes: the in-edge of an edge over one
\* rank is kept, the in-edge of an edge over d > 1 ranks has left the in-edge
\* list of the node the edge led to
InEdgesChained(W, G, WBefore, GBefore) ==
    \A s \in SpannedEdges(WBefore, GBefore) :
        LET v == WBefore.pins[s.Edge.To].OwningNode
        IN /\ s.d = 1 => Contains(W.nodes[v].InEdges, Mirror(s.Edge))
           /\ s.d > 1 => ~Contains(W.nodes[v].InEdges, Mirror(s.Edge))

\* C23: AddDummyNodes puts in the place of every edge u->v over d > 1 ranks a
\* path u->d1->...->d(d-1)->v of exactly d - 1 new dummy nodes, one in each
\* rank between, each with one input pin with one in-edge and one output pin
\* with one out-edge; an edge over one rank is left as it is and the original
\* nodes stay connected.
C23_LongEdgeReplaced ==
    pc = "DoOrderingSweep" =>
        /\ OutEdgesChained(heap, graph, before.W, before.G)
        /\ InEdgesChained(heap, graph, before.W, before.G)
        /\ Len(graph.Nodes) - Len(before.G.Nodes)
              = DummiesFor(SpannedEdges(before.W, before.G))

----------------------------------------------------------------------------
(* SortInLayer: the order of a free rank                                   *)

\* the value SortInLayer sorts Node by: its barycenter in the rank Fixed
BarycenterIn(W, Node, Fixed, Direction) == CalcBarycenter(W, Node, Fixed, 0, Direction)

\* the layer Free holds the nodes of Old, none before a node of smaller
\* barycenter in the rank Fixed
SortedByBarycenter(W, Free, Old, Fixed, Direction) ==
    /\ Len(Free) = Len(Old) /\ Range(Free) = Range(Old)
    /\ \A m, n \in DOMAIN Free :
          m < n => ~OrderValueLess(BarycenterIn(W, Free[n], Fixed, Direction), BarycenterIn(W, Free[m], Fixed, Direction))

\* two nodes of Free of equal barycenter are in the order they have in Old
KeepsOrderOfEquals(W, Free, Old, Fixed, Direction) ==
    \A m, n \in DOMAIN Free :
        (/\ m < n
         /\ ~OrderValueLess(BarycenterIn(W, Free[m], Fixed, Direction), BarycenterIn(W, Free[n], Fixed, Direction))
         /\ ~OrderValueLess(BarycenterIn(W, Free[n], Fixed, Direction), BarycenterIn(W, Free[m], Fixed, Direction)))
            => IndexOf(Old, Free[m]) < IndexOf(Old, Free[n])

\* the numbers of the free ranks of a sweep in Direction over n ranks, and
\* the number of the fixed rank of the free rank i
FreeRanks(n, Direction) == IF Direction = "Output" THEN 1..(n - 1) ELSE 2..n

FixedRank(i, Direction) == IF Direction = "Output" THEN i + 1 ELSE i - 1

\* C24: when SortInLayer has gone over a free rank, the rank holds the same
\* nodes in the order of non-decreasing barycenter (the mean index in the
\* fixed rank beside it of the pins the node is joined to, 0 without such an
\* edge), and nodes of equal barycenter are in the order they had before.
C24_SortInLayerStable ==
    "Direction" \in DOMAIN aux =>
        \A i \in FreeRanks(Len(graph.LayeredList), aux.Direction) :
            /\ SortedByBarycenter(heap, graph.LayeredList[i], before.G.LayeredList[i],
                                  graph.LayeredList[FixedRank(i, aux.Direction)], aux.Direction)
            /\ KeepsOrderOfEquals(heap, graph.LayeredList[i], before.G.LayeredList[i],
                                  graph.LayeredList[FixedRank(i, aux.Direction)], aux.Direction)

----------------------------------------------------------------------------
(* DoVerticalAlignment: the alignments of a pass                           *)

\* DoVerticalAlignment has returned, or the pass of Sweep that called it has
\* ended: aux has the RootMap and the AlignMap that DoVerticalAlignment made
\* in the direction of the pass
PassDone == pc \in {"CalculateInnerShift", "UpperRight", "LowerLeft", "LowerRight", "Combine"}

\* the number (from 1) of the layer of T that holds Node
LayerOfNode(T, Node) == CHOOSE i \in DOMAIN T.LayeredNodes : Contains(T.LayeredNodes[i], Node)

\* the aligned pairs <<u, v>> of AlignMap: DoVerticalAlignment aligned the
\* node v with its median u, so AlignMap leads from u to v, and v is not the
\* root, to which the last node of a block leads back
AlignedPairs(T) ==
    {p \in Range(LayeredSeq(T)) \X Range(LayeredSeq(T)) :
        /\ T.AlignMap[p[1]] = p[2]
        /\ p[2] # T.RootMap[p[2]]}

\* two aligned pairs between the same two layers have no node in common and
\* do not cross
AlignmentsApart(T, p, q) ==
    (/\ p # q
     /\ LayerOfNode(T, p[1]) = LayerOfNode(T, q[1])
     /\ LayerOfNode(T, p[2]) = LayerOfNode(T, q[2]))
        => /\ p[1] # q[1]
           /\ p[2] # q[2]
           /\ T.PosMap[p[1]] < T.PosMap[q[1]] <=> T.PosMap[p[2]] < T.PosMap[q[2]]

\* C25: in each of the four directions, two pairs that DoVerticalAlignment
\* aligned between the same two ranks share no node and do not cross: u1
\* is not u2, v1 is not v2, and u1 is before u2 in its rank exactly when v1
\* is before v2 in its rank.
C25_AlignmentsDoNotCross ==
    PassDone => \A p, q \in AlignedPairs(aux) : AlignmentsApart(aux, p, q)

\* C25 witness: DoVerticalAlignment has aligned two pairs between the same
\* two ranks, in the direction from below and from the right
C25_Witness ==
    /\ pc = "CalculateInnerShift" /\ ~aux.IsUpperDirection /\ ~aux.IsLeftDirection
    /\ \E p, q \in AlignedPairs(aux) :
          /\ p # q
          /\ LayerOfNode(aux, p[1]) = LayerOfNode(aux, q[1])
          /\ LayerOfNode(aux, p[2]) = LayerOfNode(aux, q[2])

----------------------------------------------------------------------------
(* MarkConflicts and DoVerticalAlignment on graphs with long edges         *)

\* the greatest number of links of a host graph of AlignmentHostGraphs
MaxAlignLinks == 6

\* the connected host graphs of five nodes, with one input and one output
\* pin each, whose links go from a node to a node of greater number
AlignmentHostGraphs ==
    {H \in {HostGraphOf(FiveNodes, L) :
               L \in SubsetsUpTo(UNION {LinksBetween(FiveNodes, {u}, (u + 1)..5) : u \in 1..4}, MaxAlignLinks)} :
        IsConnected(H)}

\* the graph went through RemoveCycle, DoLayering, AddDummyNodes and
\* DoOrderingSweep, as Format does, and the constructor of the strategy is
\* at the end of Initialize: aux is the strategy object.  Every node has the
\* size 1 and every pin the offset 0, which no step of MarkConflicts and
\* DoVerticalAlignment reads.
InitAlignment ==
    /\ \E H \in AlignmentHostGraphs :
          \E S \in {AddDummyNodes(DoLayering(RemoveCycleOf(BuildNodesAndEdges(EmptyHeap, H, DOMAIN H.Pins))))} :
             \E R \in DoOrderingSweep(S.W, S.G) :
                /\ heap = S.W
                /\ graph = [S.G EXCEPT !.LayeredList = R.Best]
                /\ before = S
                /\ aux = Initialize(S.W, NewStrategy(R.Best, [n \in DOMAIN S.W.nodes |-> Unit],
                                                     [p \in DOMAIN S.W.pins |-> 0], [n \in DOMAIN S.W.nodes |-> 0],
                                                     0, "EFastAndSimpleMethodTop"))
    /\ pc = "DoVerticalAlignment"

\* DoOnePass starts with DoVerticalAlignment, in one of the four directions
\* of Sweep
StepDoVerticalAlignment ==
    /\ pc = "DoVerticalAlignment"
    /\ \E IsUpperDirection, IsLeftDirection \in BOOLEAN :
          aux' = DoVerticalAlignment(heap, [aux EXCEPT !.IsUpperDirection = IsUpperDirection,
                                                       !.IsLeftDirection = IsLeftDirection])
    /\ pc' = "CalculateInnerShift"
    /\ UNCHANGED <<heap, graph, before>>

NextAlignment == StepDoVerticalAlignment

SpecAlignment == InitAlignment /\ [][NextAlignment]_vars

\* the edges between layer i and layer i + 1 of T (from 1), as the pairs
\* <<upper node, lower node>> of the out-edges of the nodes of layer i
EdgesOfLayers(W, T, i) ==
    {e \in Range(T.LayeredNodes[i]) \X Range(T.LayeredNodes[i + 1]) : e[2] \in OutNeighbours(W, e[1])}

\* an inner segment: both nodes are dummy nodes
InnerSegment(W, e) == W.nodes[e[1]].OriginalNode = NULL /\ W.nodes[e[2]].OriginalNode = NULL

\* two edges between the same two layers cross
Crosses(T, e, f) ==
    \/ T.PosMap[e[1]] < T.PosMap[f[1]] /\ T.PosMap[e[2]] > T.PosMap[f[2]]
    \/ T.PosMap[e[1]] > T.PosMap[f[1]] /\ T.PosMap[e[2]] < T.PosMap[f[2]]

\* the edges that cross an inner segment and are not one
CrossingInner(W, T) ==
    UNION {{e \in EdgesOfLayers(W, T, i) :
               /\ ~InnerSegment(W, e)
               /\ \E f \in EdgesOfLayers(W, T, i) : InnerSegment(W, f) /\ Crosses(T, e, f)} :
              i \in 1..(Len(T.LayeredNodes) - 1)}

\* the aligned pair p of T as <<upper node, lower node>>
Downward(T, p) == IF LayerOfNode(T, p[1]) < LayerOfNode(T, p[2]) THEN p ELSE <<p[2], p[1]>>

\* the edge e is conflict-marked: ConflictMarks has the lower node of e for
\* its upper node
Marked(T, e) == e[1] \in DOMAIN T.ConflictMarks /\ T.ConflictMarks[e[1]] = e[2]

\* no aligned pair of T crosses an inner segment between its two layers
NoAlignmentCrossesInner(W, T) ==
    \A p \in AlignedPairs(T) :
        \A i \in 1..(Len(T.LayeredNodes) - 1) : \A f \in EdgesOfLayers(W, T, i) :
            (/\ InnerSegment(W, f)
             /\ LayerOfNode(T, Downward(T, p)[1]) = i
             /\ LayerOfNode(T, Downward(T, p)[2]) = i + 1) => ~Crosses(T, Downward(T, p), f)

\* C26: between every two adjacent ranks, every edge that crosses an inner
\* segment (an edge that joins two dummy nodes) and is not an inner segment
\* is conflict-marked by MarkConflicts, and after DoVerticalAlignment no
\* aligned pair crosses an inner segment.
C26_InnerSegmentsProtected ==
    /\ \A e \in CrossingInner(heap, aux) : Marked(aux, e)
    /\ pc = "CalculateInnerShift" => NoAlignmentCrossesInner(heap, aux)

----------------------------------------------------------------------------
(* GetPinsOffset on a formatted graph.  A node has here, besides Position,  *)
(* Size and SubGraph, its InPins and OutPins: sequences of pins             *)
(* [OriginalPin, NodeOffset].  The result is a function from the original   *)
(* pins to their offsets (TMap<UEdGraphPin*, FVector2D>).                   *)

\* the positions of the nodes and the second coordinate of NodeOffset
PinCoords == 0..1

\* node j of isolated graph c, with one input pin on its left side and one
\* output pin on its right side; the original pins are named <<c, j, side>>
PinnedNode(c, j, Position, o) ==
    [Position |-> Position, Size |-> <<1, 1>>, SubGraph |-> <<>>,
     InPins |-> <<[OriginalPin |-> <<c, j, "In">>, NodeOffset |-> <<0, o>>]>>,
     OutPins |-> <<[OriginalPin |-> <<c, j, "Out">>, NodeOffset |-> <<1, o>>]>>]

\* the nodes of isolated graph c as a positioning strategy can leave them:
\* one node or two
PinnedLayouts(c) ==
    {{PinnedNode(c, 1, P, o)} : P \in PinCoords \X PinCoords, o \in PinCoords}
    \cup {{PinnedNode(c, 1, P[1], o[1]), PinnedNode(c, 2, P[2], o[2])} :
             P \in (PinCoords \X PinCoords) \X (PinCoords \X PinCoords), o \in PinCoords \X PinCoords}

\* FSlateRect::GetTopLeft
GetTopLeft(R) == <<R.Left, R.Top>>

RECURSIVE AddPinOffsets(_, _, _, _, _)
\* the loops over OutPins and InPins of a node: Result.Add(Pin->OriginalPin,
\* Node->Position + Pin->NodeOffset - TotalBound.GetTopLeft() + Border)
AddPinOffsets(Result, Node, Pins, TopLeft, Border) ==
    IF Pins = <<>> THEN Result
    ELSE LET Pin == Head(Pins)
             PinOffset == <<Node.Position[1] + Pin.NodeOffset[1] - TopLeft[1] + Border[1],
                            Node.Position[2] + Pin.NodeOffset[2] - TopLeft[2] + Border[2]>>
         IN AddPinOffsets((Pin.OriginalPin :> PinOffset) @@ Result, Node, Tail(Pins), TopLeft, Border)

RECURSIVE AddNodesPins(_, _, _, _)
\* the loop of GetPinsOffset over Nodes
AddNodesPins(Result, Nodes, TopLeft, Border) ==
    IF Nodes = {} THEN Result
    ELSE LET Node == CHOOSE n \in Nodes : TRUE
         IN AddNodesPins(AddPinOffsets(AddPinOffsets(Result, Node, Node.OutPins, TopLeft, Border),
                                 Node, Node.InPins, TopLeft, Border),
                         Nodes \ {Node}, TopLeft, Border)

\* the loop over SubOffsets in GetPinsOffset: for (auto SubOffsetPair :
\* SubOffsets) binds SubOffsetPair to a copy of the pair, so the assignment
\* to SubOffsetPair.Value leaves SubOffsets as it was
AddOffsetToCopies(SubOffsets, Offset) == SubOffsets

RECURSIVE GetPinsOffset(_, _)
RECURSIVE AppendSubOffsets(_, _, _, _)
\* the loop of GetPinsOffset over IsolatedGraphs
AppendSubOffsets(Result, G, i, CommentBorder) ==
    IF i > Len(G.IsolatedGraphs) THEN Result
    ELSE LET IsolatedGraph == G.IsolatedGraphs[i]
             SubBound == IsolatedGraph.TotalBound
             Offset == <<GetTopLeft(SubBound)[1] - GetTopLeft(G.TotalBound)[1],
                         GetTopLeft(SubBound)[2] - GetTopLeft(G.TotalBound)[2]>>
             SubOffsets == AddOffsetToCopies(GetPinsOffset(IsolatedGraph, CommentBorder), Offset)
         IN AppendSubOffsets(SubOffsets @@ Result, G, i + 1, CommentBorder)

\* FFormatterGraph::GetPinsOffset
GetPinsOffset(G, CommentBorder) ==
    IF Len(G.IsolatedGraphs) > 0 THEN AppendSubOffsets(<<>>, G, 1, CommentBorder)
    ELSE AddNodesPins(<<>>, G.Nodes, GetTopLeft(G.TotalBound), <<CommentBorder, CommentBorder>>)

\* Format has ended on a graph without isolated graphs, or on a graph of two
\* isolated graphs, the second moved under the first; aux has the setting
\* CommentBorder and the result of GetPinsOffset
InitPinsOffset ==
    /\ \E b \in 0..MaxBorder :
          aux = [CommentBorder |-> b, Result |-> <<>>]
    /\ \/ \E Nodes \in PinnedLayouts(1) : graph = FormattedOf(Nodes)
       \/ \E First \in PinnedLayouts(1), Second \in PinnedLayouts(2) : \E v \in 0..MaxSpacing :
             graph = FormattedIsolated(FormattedOf(First), FormattedOf(Second), v)
    /\ heap = EmptyHeap
    /\ before = <<>>
    /\ pc = "GetPinsOffset"

\* GetPinsOffset is called on the graph
StepGetPinsOffset ==
    /\ pc = "GetPinsOffset"
    /\ aux' = [aux EXCEPT !.Result = GetPinsOffset(graph, aux.CommentBorder)]
    /\ pc' = "Done"
    /\ UNCHANGED <<heap, graph, before>>

NextPinsOffset == StepGetPinsOffset

SpecPinsOffset == InitPinsOffset /\ [][NextPinsOffset]_vars

\* Result has an offset for the original pin of every pin of G, and the
\* offset is node position + pin offset within the node - top left of Bound
\* + border
OffsetsFrom(Result, G, Bound, CommentBorder) ==
    \A n \in G.Nodes : \A Pin \in Range(n.InPins) \cup Range(n.OutPins) :
        /\ Pin.OriginalPin \in DOMAIN Result
        /\ Result[Pin.OriginalPin] = <<n.Position[1] + Pin.NodeOffset[1] - Bound.Left + CommentBorder,
                                       n.Position[2] + Pin.NodeOffset[2] - Bound.Top + CommentBorder>>

\* C27: for a graph made of isolated graphs GetPinsOffset returns for every
\* pin the offset reported by the pin's isolated graph plus (top left of the
\* bound of the isolated graph - top left of the bound of the whole graph);
\* for a graph without isolated graphs it returns node position + pin offset
\* within the node - top left of the bound + border.
C27_PinsOffsetInGraphSpace ==
    pc = "Done" =>
        IF Len(graph.IsolatedGraphs) > 0
        THEN \A i \in DOMAIN graph.IsolatedGraphs :
                LET Sub == graph.IsolatedGraphs[i]
                    SubOffsets == GetPinsOffset(Sub, aux.CommentBorder)
                IN \A Pin \in DOMAIN SubOffsets :
                      /\ Pin \in DOMAIN aux.Result
                      /\ aux.Result[Pin] = <<SubOffsets[Pin][1] + (Sub.TotalBound.Left - graph.TotalBound.Left),
                                             SubOffsets[Pin][2] + (Sub.TotalBound.Top - graph.TotalBound.Top)>>
        ELSE OffsetsFrom(aux.Result, graph, graph.TotalBound, aux.CommentBorder)

----------------------------------------------------------------------------
(* The two ends of the edges after RemoveNode, RemoveCycle and              *)
(* AddDummyNodes                                                            *)

\* the node at the far end of Edge
FarNode(W, Edge) == W.nodes[W.pins[Edge.To].OwningNode]

\* a node of G has an out-edge (p, q) as often as the node owning q has the
\* in-edge (q, p), and an in-edge (q, p) as often as the node owning p has
\* the out-edge (p, q)
Mirrored(W, G) ==
    \A n \in Range(G.Nodes) :
        /\ \A Edge \in Range(W.nodes[n].OutEdges) :
              CountEdge(W.nodes[n].OutEdges, Edge)
                  = CountEdge(FarNode(W, Edge).InEdges, [From |-> Edge.To, To |-> Edge.From])
        /\ \A Edge \in Range(W.nodes[n].InEdges) :
              CountEdge(W.nodes[n].InEdges, Edge)
                  = CountEdge(FarNode(W, Edge).OutEdges, [From |-> Edge.To, To |-> Edge.From])

\* C28: the edge lists are mirrored in every state reached by building a
\* graph and applying RemoveCycle and AddDummyNodes (and RemoveNode inside
\* RemoveCycle): a node has an out-edge (p, q) iff the node owning q has the
\* in-edge (q, p), with the same multiplicity.
C28_EdgeListsMirrored == Mirrored(heap, graph)

----------------------------------------------------------------------------
(* DoVerticalAlignment: the blocks as cycles of AlignMap                    *)

RECURSIVE AlignWalk(_, _, _)
\* the node that k steps along AlignMap from Node lead to
AlignWalk(T, Node, k) == IF k = 0 THEN Node ELSE AlignWalk(T, T.AlignMap[Node], k - 1)

\* the nodes that the steps along AlignMap from Node lead to, Node included
AlignOrbit(T, Node) == {AlignWalk(T, Node, k) : k \in 0..Len(LayeredSeq(T))}

\* the steps along AlignMap from Node come back to Node
ComesBack(T, Node) == \E k \in 1..Len(LayeredSeq(T)) : AlignWalk(T, Node, k) = Node

\* the nodes on the way from Node have the root of Node, which is one of
\* them, and no two of them are in the same layer
OneBlock(T, Node) ==
    /\ \A m \in AlignOrbit(T, Node) : T.RootMap[m] = T.RootMap[Node]
    /\ T.RootMap[Node] \in AlignOrbit(T, Node)
    /\ \A m, n \in AlignOrbit(T, Node) : m # n => LayerOfNode(T, m) # LayerOfNode(T, n)

----------------------------------------------------------------------------
(* DoLayering: the layered list as a partition of the nodes                 *)

\* the number of places of the layered list of G that hold Node
PlacesOf(G, Node) ==
    SumSeq([i \in DOMAIN G.LayeredList |-> Cardinality({k \in DOMAIN G.LayeredList[i] : G.LayeredList[i][k] = Node})])

\* C30: after DoLayering on an acyclic graph the layered list is a partition
\* of the nodes of the graph into exactly CalculateLongestPath() layers:
\* every node is in exactly one layer, no node appears twice, the layers
\* hold nothing but nodes of the graph, and no layer is empty.
C30_LayersPartitionNodes ==
    pc = "AddDummyNodes" /\ Acyclic(before.W, before.G) =>
        /\ Len(graph.LayeredList) = CalculateLongestPath(before.W, before.G).LongestPath
        /\ \A n \in Range(graph.Nodes) : Cardinality(LayersOf(graph, n)) = 1 /\ PlacesOf(graph, n) = 1
        /\ \A i \in DOMAIN graph.LayeredList :
              /\ Range(graph.LayeredList[i]) \subseteq Range(graph.Nodes)
              /\ Len(graph.LayeredList[i]) > 0

\* C30 witness: DoLayering has made three layers of an acyclic graph, one of
\* them with two nodes or more, and has put a node whose longest path has
\* one node, itself, in a layer before the last
C30_Witness ==
    /\ pc = "AddDummyNodes" /\ Acyclic(before.W, before.G)
    /\ Len(graph.LayeredList) = 3
    /\ \E i \in DOMAIN graph.LayeredList : Len(graph.LayeredList[i]) >= 2
    /\ \E n \in Range(graph.Nodes) :
          heap.nodes[n].PathDepth = 1 /\ LayersOf(graph, n) # {Len(graph.LayeredList)}

====
